---- MODULE Spec2Model ----
(***************************************************************************)
(* Task status machine, assignment, comments and notification fan-out of   *)
(* the multi-tenant task management backend (backend/routes/tasks.js,      *)
(* backend/routes/comments.js, backend/services/notificationService.js,    *)
(* backend/services/emailService.js, models/Task.js).                      *)
(*                                                                         *)
(* A request is a process: every `await` of a handler that touches the     *)
(* store (Task.findOne, task.save, ActivityLog.create,                     *)
(* Notification.create) is one step, the synchronous code between two      *)
(* awaits belongs to the step that follows it.  A mongoose document is a   *)
(* private copy of the stored task; save() writes only the paths whose     *)
(* value was changed on the copy.                                          *)
(***************************************************************************)
EXTENDS Integers, Sequences, FiniteSets, TLC

VARIABLES tasks, activityLog, notifications, req,
          comments,   \* stored comments
          emitted,    \* 'notification' events received by joined sockets
          outbox,     \* sendNotificationEmail calls in flight
          emails,     \* mails accepted by the transport
          lostLog,    \* ActivityLog.create calls that rejected
          env,        \* socket server, joined users, mail transport, storage
          sockets,    \* socket.io connections: user id, rooms, events received
          signups,    \* POST /auth/signup requests in flight
          companies,  \* Company collection
          accounts,   \* User collection as signup fills it
          projects,   \* Project collection
          goals,      \* UserGoal collection
          background  \* notify calls that no handler awaits

socketVars == <<sockets>>
signupVars == <<signups, companies, accounts>>
projectVars == <<projects, goals, background>>

\* the collections and connections of the other routes
others == <<socketVars, signupVars, projectVars>>

vars == <<tasks, activityLog, notifications, req, comments, emitted, outbox, emails,
          lostLog, env, others>>

logVars == <<activityLog, lostLog>>
notifVars == <<notifications, emitted, outbox>>
rest == <<comments, emails, env, others>>

\* ------------------------------------------------------------------ bounds
MaxTasks == 1
\* requests arrive while the activity log holds fewer entries than MaxLog
MaxLog == 1
NumSlots == 2
\* socket.io connections, and 'notification' events one connection receives
MaxSockets == 2
MaxEvents == 2
\* signup requests arrive while fewer than MaxAccounts users are stored
MaxAccounts == 2
MaxProjects == 1
\* longest comment text whose mentions are resolved for every text
MaxText == 6

TaskIds == 1..MaxTasks
Slots == 1..NumSlots

\* ------------------------------------------------------- values and users
NULL == "null"
UNDEF == "undefined"
DATE == "Date"

Statuses == {"TODO", "IN_PROGRESS", "IN_REVIEW", "DONE", "BLOCKER"}

\* Seeded users: an ADMIN, a MANAGER and a MEMBER of company A and the
\* ADMIN of company B.
Users == {"adm", "mgr", "mem", "out"}

UserRole(u) ==
  CASE u = "adm" -> "ADMIN"
    [] u = "mgr" -> "MANAGER"
    [] u = "mem" -> "MEMBER"
    [] u = "out" -> "ADMIN"
    [] u = "gone" -> "MEMBER"

UserCompany(u) == IF u = "out" THEN "B" ELSE "A"

\* The User collection in insertion order; "gone" is a soft-deleted MEMBER of
\* company A, which the find hook of the User model hides.
AllUsers == <<"adm", "mgr", "mem", "out", "gone">>

\* Characters of a comment text: '@', the double quote, the blank, '.' (a
\* character of the class escaped by resolveMentions) and the word
\* characters 'a' and 'A'.
Chars == {"@", "\"", " ", ".", "a", "A"}
WordChars == {"a", "A"}

\* Full names: two members of company A whose names differ in case only, a
\* two-word name, and the same names outside the company or deleted.
UserName(u) ==
  CASE u = "adm" -> <<"A">>
    [] u = "mgr" -> <<"a", " ", "a">>
    [] u = "mem" -> <<"a">>
    [] u = "out" -> <<"A">>
    [] u = "gone" -> <<"a">>

\* A lookup by id alone
FindUser_AnyCompany(id, companyId) == id \in Users

\* User.findOne({ _id: id, companyId })
FindUser(id, companyId) == id \in Users /\ UserCompany(id) = companyId

\* config/roles.js PERMISSIONS, the rows of the routes modelled
PERMISSIONS(permission) ==
  CASE permission = "projects:create" -> {"ADMIN", "MANAGER"}
    [] permission = "projects:add-member" -> {"ADMIN", "MANAGER"}
    [] permission = "projects:remove-member" -> {"ADMIN", "MANAGER"}
    [] permission = "tasks:create" -> {"ADMIN", "MANAGER"}
    [] permission = "tasks:list" -> {"ADMIN", "MANAGER", "MEMBER"}
    [] permission = "tasks:read" -> {"ADMIN", "MANAGER", "MEMBER"}
    [] permission = "tasks:update" -> {"ADMIN", "MANAGER", "MEMBER"}
    [] permission = "tasks:assign" -> {"ADMIN", "MANAGER"}
    [] permission = "tasks:delete" -> {"ADMIN", "MANAGER"}
    [] permission = "comments:create" -> {"ADMIN", "MANAGER", "MEMBER"}
    [] permission = "comments:list" -> {"ADMIN", "MANAGER", "MEMBER"}
    [] permission = "comments:delete" -> {"ADMIN", "MANAGER"}
    [] permission = "goals:create" -> {"ADMIN", "MANAGER"}

\* middleware/auth.js permit(permission)
permit(permission, u) == UserRole(u) \in PERMISSIONS(permission)

\* ------------------------------------------------------ status transitions
STATUS_FLOW(from) ==
  CASE from = "TODO" -> {"IN_PROGRESS"}
    [] from = "IN_PROGRESS" -> {"IN_REVIEW", "TODO", "BLOCKER"}
    [] from = "IN_REVIEW" -> {"DONE", "IN_PROGRESS", "BLOCKER"}
    [] from = "DONE" -> {"TODO"}
    [] from = "BLOCKER" -> {"TODO", "IN_PROGRESS"}

\* A check that accepts every status of the enum
isValidTransition_AnyStatus(from, to) == to \in Statuses

isValidTransition(from, to) == to \in STATUS_FLOW(from)

\* The bookkeeping without its else-branch: completedAt is never cleared
ApplyStatus_NoClear(doc, s) ==
  LET d == [doc EXCEPT !.status = s] IN
  IF d.status = "DONE" /\ d.completedAt = NULL
    THEN [d EXCEPT !.completedAt = DATE]
    ELSE d

\* task.status = s, then the completedAt bookkeeping that follows it
ApplyStatus(doc, s) ==
  LET d == [doc EXCEPT !.status = s] IN
  IF d.status = "DONE" /\ d.completedAt = NULL
    THEN [d EXCEPT !.completedAt = DATE]
    ELSE IF d.status # "DONE" /\ d.completedAt # NULL
      THEN [d EXCEPT !.completedAt = NULL]
      ELSE d

\* ------------------------------------------------------------- documents
TaskFields ==
  {"companyId", "createdBy", "assignedTo", "status", "completedAt", "priority", "isDeleted"}

\* Task.create(): the schema defaults status TODO, completedAt null
NewTask(actor, assignedTo, priority) ==
  [companyId |-> UserCompany(actor), createdBy |-> actor,
   assignedTo |-> IF assignedTo \in {UNDEF, NULL} THEN NULL ELSE assignedTo,
   status |-> "TODO", completedAt |-> NULL,
   priority |-> IF priority = UNDEF THEN "MEDIUM" ELSE priority, isDeleted |-> FALSE]

NoDoc ==
  [companyId |-> NULL, createdBy |-> NULL, assignedTo |-> NULL,
   status |-> NULL, completedAt |-> NULL, priority |-> NULL, isDeleted |-> FALSE]

\* document.save(): $set of the modified paths, the other stored fields stay
SaveDoc(stored, read, doc) ==
  [f \in TaskFields |-> IF doc[f] # read[f] THEN doc[f] ELSE stored[f]]

\* A lookup by id alone
FindTask_AnyCompany(t, companyId) == t \in DOMAIN tasks /\ ~tasks[t].isDeleted

\* Task.findOne({ _id: t, companyId }); the find hook hides deleted tasks
FindTask(t, companyId) ==
  t \in DOMAIN tasks /\ tasks[t].companyId = companyId /\ ~tasks[t].isDeleted

\* --------------------------------------------------- log and notifications
\* logActivity(action, user, task, extra)
LogEntry(action, u, t, meta) ==
  [action |-> action, companyId |-> UserCompany(u), performedBy |-> u,
   targetType |-> "Task", targetId |-> t, metadata |-> meta]

\* A create() without the test for the actor
create_NotifySelf(recipient, type, triggeredBy, t) ==
  <<[recipient |-> recipient, type |-> type,
     companyId |-> UserCompany(triggeredBy), triggeredBy |-> triggeredBy,
     relatedType |-> "Task", relatedId |-> t, read |-> FALSE,
     readAt |-> NULL]>>

\* notificationService.create(): nobody is notified of their own action
create(recipient, type, triggeredBy, t) ==
  IF recipient = triggeredBy
    THEN <<>>
    ELSE <<[recipient |-> recipient, type |-> type,
            companyId |-> UserCompany(triggeredBy), triggeredBy |-> triggeredBy,
            relatedType |-> "Task", relatedId |-> t, read |-> FALSE,
     readAt |-> NULL]>>

taskAssigned(t, assignedToId, actor) == create(assignedToId, "TASK_ASSIGNED", actor, t)

\* A status notification that is built without the test for the actor
taskStatusChanged_NoSelfCheck(t, actor, notifyUserId) ==
  <<[recipient |-> notifyUserId, type |-> "TASK_STATUS_CHANGED",
     companyId |-> UserCompany(actor), triggeredBy |-> actor,
     relatedType |-> "Task", relatedId |-> t, read |-> FALSE,
     readAt |-> NULL]>>

taskStatusChanged(t, actor, notifyUserId) ==
  create(notifyUserId, "TASK_STATUS_CHANGED", actor, t)

commentAdded(t, actor, notifyUserId) == create(notifyUserId, "COMMENT_ADDED", actor, t)

commentMentioned(t, actor, mentionedUserId) ==
  create(mentionedUserId, "COMMENT_MENTIONED", actor, t)

\* ------------------------------------------------------------- mentions
\* index of the first double quote at or after i, 0 when there is none
FirstQuote(text, i) ==
  LET qs == {q \in i..Len(text) : text[q] = "\""} IN
  IF qs = {} THEN 0 ELSE CHOOSE q \in qs : \A p \in qs : q <= p

\* index of the last character of the run of word characters starting at i,
\* i - 1 when text[i] is no word character
WordEnd(text, i) ==
  LET stops == {e \in i..Len(text) : text[e] \notin WordChars} IN
  IF stops = {} THEN Len(text) ELSE (CHOOSE e \in stops : \A f \in stops : e <= f) - 1

\* the exec loop of /@"([^"]+)"|@(\w+)/g from index i: the quoted form is
\* tried first, the search resumes after each match
RECURSIVE MentionNamesFrom(_, _)
MentionNamesFrom(text, i) ==
  IF i > Len(text) THEN <<>>
  ELSE IF text[i] # "@" THEN MentionNamesFrom(text, i + 1)
  ELSE LET q == IF i + 1 <= Len(text) /\ text[i + 1] = "\""
                  THEN FirstQuote(text, i + 2) ELSE 0
           e == WordEnd(text, i + 1) IN
       IF q > i + 2
         THEN <<SubSeq(text, i + 2, q - 1)>> \o MentionNamesFrom(text, q + 1)
         ELSE IF e >= i + 1
           THEN <<SubSeq(text, i + 1, e)>> \o MentionNamesFrom(text, e + 1)
           ELSE MentionNamesFrom(text, i + 1)

MentionNames(text) == MentionNamesFrom(text, 1)

\* A name used as a pattern as it is
escapeRegExp_None(n) == n

\* n.replace(/[.*+?^${}()|[\]\\]/g, '\\$&'): a backslash before each special
\* character
RECURSIVE escapeRegExp(_)
escapeRegExp(n) ==
  IF n = <<>> THEN <<>>
  ELSE (IF Head(n) = "." THEN <<"\\", ".">> ELSE <<Head(n)>>) \o escapeRegExp(Tail(n))

toLowerCase(c) == IF c = "A" THEN "a" ELSE c

\* new RegExp('^' + pattern + '$', 'i').test(name): '.' matches any
\* character, a backslash takes the next character literally
RECURSIVE RegExpTest(_, _)
RegExpTest(pattern, name) ==
  IF pattern = <<>> THEN name = <<>>
  ELSE IF name = <<>> THEN FALSE
  ELSE IF Head(pattern) = "\\"
    THEN /\ Len(pattern) >= 2
         /\ toLowerCase(pattern[2]) = toLowerCase(Head(name))
         /\ RegExpTest(Tail(Tail(pattern)), Tail(name))
  ELSE IF Head(pattern) = "."
    THEN RegExpTest(Tail(pattern), Tail(name))
    ELSE /\ toLowerCase(Head(pattern)) = toLowerCase(Head(name))
         /\ RegExpTest(Tail(pattern), Tail(name))

\* [...new Set(ids)]: the first occurrence of each id
RECURSIVE Unique(_)
Unique(ids) ==
  IF ids = <<>> THEN <<>>
  ELSE LET front == Unique(SubSeq(ids, 1, Len(ids) - 1))
           last == ids[Len(ids)] IN
       IF \E k \in 1..Len(front) : front[k] = last THEN front ELSE Append(front, last)

\* resolveMentions(text, companyId)
resolveMentions(text, companyId) ==
  LET names == MentionNames(text) IN
  IF names = <<>> THEN <<>>
  ELSE Unique(SelectSeq(AllUsers, LAMBDA u :
         /\ u \in Users
         /\ UserCompany(u) = companyId
         /\ \E k \in 1..Len(names) : RegExpTest(escapeRegExp(names[k]), UserName(u))))

\* ------------------------------------------------------------ requests
NoBody == [status |-> UNDEF, priority |-> UNDEF, assignedTo |-> UNDEF]

Idle ==
  [pc |-> "idle", op |-> "none", actor |-> NULL, tid |-> 0, body |-> NoBody,
   read |-> NoDoc, doc |-> NoDoc, oldStatus |-> NULL, resp |-> 0, msg |-> NULL,
   nlog |-> 0, nnotif |-> 0, saved |-> FALSE, pre |-> <<>>,
   text |-> <<>>, mentions |-> <<>>, pending |-> <<>>, cid |-> 0, result |-> <<>>]

\* The request as it arrives; pre is the store it finds.
Arrival(op, actor, t, body) ==
  [Idle EXCEPT !.op = op, !.actor = actor, !.tid = t, !.body = body,
               !.pre = <<tasks, activityLog, notifications, comments>>]

\* Response messages
TASK_NOT_FOUND == "Task not found"
ACCESS_DENIED == "Access denied"
NOT_ASSIGNEE == "You can only update tasks assigned to you"
INVALID_TRANSITION == "Invalid status transition"
BLOCKED_MEMBER == "Only managers or admins can resolve blocked tasks"
MEMBER_STATUS_ONLY == "Members can only update task status"
ASSIGNEE_NOT_FOUND == "Assignee not found in your company"
PROJECT_NOT_FOUND == "Project not found in your company"
TASK_NOT_IN_COMPANY == "Task not found in your company"
TASK_DELETED == "Task deleted"
OK == "OK"

\* res.status(code).json(...): the handler returns
Respond(rq, code, msg) == [rq EXCEPT !.pc = "done", !.resp = code, !.msg = msg]

\* Inputs of PUT /tasks/:id that pass updateTaskRules
Actors == Users
PutBodies ==
  [status : Statuses \cup {UNDEF}, priority : {UNDEF, "HIGH"},
   assignedTo : {UNDEF, NULL, "mem", "mgr", "out"}]

Update(r, rq) == req' = [req EXCEPT ![r] = rq]

\* ------------------------------------------------------------ environment
\* io: setIO was called with the socket server; online: the users with a
\* socket joined to their room; transporter: SMTP is configured;
\* dbFaults: a write to ActivityLog or Notification may reject.
Environments ==
  [io : BOOLEAN, online : {{}, Users}, transporter : BOOLEAN, dbFaults : BOOLEAN]

\* The deployment without SMTP settings, every write accepted
Healthy == [io |-> TRUE, online |-> Users, transporter |-> FALSE, dbFaults |-> FALSE]

SERVER_ERROR == "Internal server error"

\* A log write that lets its rejection reach the handler's catch
logActivity_Propagates(r, entry, next) ==
  \E ok \in (IF env.dbFaults THEN BOOLEAN ELSE {TRUE}) :
    /\ activityLog' = IF ok THEN Append(activityLog, entry) ELSE activityLog
    /\ lostLog' = IF ok THEN lostLog ELSE lostLog + 1
    /\ Update(r, IF ok THEN [next EXCEPT !.nlog = @ + 1]
                       ELSE Respond(req[r], 500, SERVER_ERROR))

\* logActivity(): ActivityLog.create(entry).catch(warn); a rejected write is
\* logged as a warning and the caller goes on to next as after a write.
logActivity(r, entry, next) ==
  \E ok \in (IF env.dbFaults THEN BOOLEAN ELSE {TRUE}) :
    /\ activityLog' = IF ok THEN Append(activityLog, entry) ELSE activityLog
    /\ lostLog' = IF ok THEN lostLog ELSE lostLog + 1
    /\ Update(r, [next EXCEPT !.nlog = @ + (IF ok THEN 1 ELSE 0)])

\* emit(recipientId, notification): io.to(room of the recipient).emit
emit(n) == SelectSeq(n, LAMBDA x : env.io /\ x.recipient \in env.online)

\* sendNotificationEmail(): returns at once without a transporter, else the
\* mail is sent later, not awaited by create()
sendNotificationEmail(n) == IF env.transporter THEN n ELSE <<>>

\* await notify.<helper>(...): n is what create() persists.  A rejected
\* Notification.create is thrown to the handler's catch: next(error), 500.
Notify(r, n, next) ==
  \E ok \in (IF env.dbFaults /\ n # <<>> THEN BOOLEAN ELSE {TRUE}) :
    IF ok
      THEN /\ notifications' = notifications \o n
           /\ emitted' = emitted \o emit(n)
           /\ outbox' = outbox \o sendNotificationEmail(n)
           /\ Update(r, [next EXCEPT !.nnotif = @ + Len(n)])
      ELSE /\ Update(r, Respond(req[r], 500, SERVER_ERROR))
           /\ UNCHANGED notifVars

\* ---------------------------------------------------- PUT /tasks/:id
\* protect, permit('tasks:update'), then Task.findOne
PutRead(r, actor, t, body) ==
  /\ req[r].pc = "idle"
  /\ Len(activityLog) + lostLog < MaxLog
  /\ LET rq == Arrival("put", actor, t, body) IN
     IF ~permit("tasks:update", actor)
       THEN Update(r, Respond(rq, 403, ACCESS_DENIED))
       ELSE IF ~FindTask(t, UserCompany(actor))
         THEN Update(r, Respond(rq, 404, TASK_NOT_FOUND))
         ELSE Update(r, [rq EXCEPT !.pc = "put_branch", !.read = tasks[t], !.doc = tasks[t]])
  /\ UNCHANGED <<tasks, logVars, notifVars, rest>>

\* MEMBER branch: the checks before the status is applied; PASS lets it through
PASS == <<200, OK>>

\* The checks without the BLOCKER test
MemberCheck_NoBlocker(doc, actor, body) ==
  IF doc.assignedTo # actor THEN <<403, NOT_ASSIGNEE>>
  ELSE IF body.status = UNDEF THEN <<400, MEMBER_STATUS_ONLY>>
  ELSE IF ~isValidTransition(doc.status, body.status) THEN <<400, INVALID_TRANSITION>>
  ELSE PASS

\* The checks with the BLOCKER test ahead of the transition test
MemberCheck_BlockerFirst(doc, actor, body) ==
  IF doc.assignedTo # actor THEN <<403, NOT_ASSIGNEE>>
  ELSE IF body.status = UNDEF THEN <<400, MEMBER_STATUS_ONLY>>
  ELSE IF doc.status = "BLOCKER" THEN <<403, BLOCKED_MEMBER>>
  ELSE IF ~isValidTransition(doc.status, body.status) THEN <<400, INVALID_TRANSITION>>
  ELSE PASS

\* The checks without the assignee test
MemberCheck_AnyMember(doc, actor, body) ==
  IF body.status = UNDEF THEN <<400, MEMBER_STATUS_ONLY>>
  ELSE IF ~isValidTransition(doc.status, body.status) THEN <<400, INVALID_TRANSITION>>
  ELSE IF doc.status = "BLOCKER" THEN <<403, BLOCKED_MEMBER>>
  ELSE PASS

MemberCheck(doc, actor, body) ==
  IF doc.assignedTo # actor THEN <<403, NOT_ASSIGNEE>>
  ELSE IF body.status = UNDEF THEN <<400, MEMBER_STATUS_ONLY>>
  ELSE IF ~isValidTransition(doc.status, body.status) THEN <<400, INVALID_TRANSITION>>
  ELSE IF doc.status = "BLOCKER" THEN <<403, BLOCKED_MEMBER>>
  ELSE PASS

\* A MEMBER update that also applies the priority of the body
MemberUpdate_WithPriority(doc, body) ==
  ApplyStatus(IF body.priority # UNDEF THEN [doc EXCEPT !.priority = body.priority] ELSE doc,
              body.status)

\* MEMBER branch: what the request changes on the document
MemberUpdate(doc, body) == ApplyStatus(doc, body.status)

\* MEMBER branch up to task.save()
PutMember(r) ==
  LET rq == req[r]
      check == MemberCheck(rq.doc, rq.actor, rq.body) IN
  /\ rq.pc = "put_branch"
  /\ UserRole(rq.actor) = "MEMBER"
  /\ IF check # PASS
       THEN /\ Update(r, Respond(rq, check[1], check[2]))
            /\ UNCHANGED tasks
       ELSE LET doc == MemberUpdate(rq.doc, rq.body) IN
            /\ tasks' = [tasks EXCEPT ![rq.tid] = SaveDoc(@, rq.read, doc)]
            /\ Update(r, [rq EXCEPT !.pc = "m_log", !.oldStatus = rq.doc.status,
                                    !.doc = doc, !.saved = TRUE])
  /\ UNCHANGED <<logVars, notifVars, rest>>

\* MEMBER branch: logActivity('TASK_STATUS_CHANGED')
PutMemberLog(r) ==
  LET rq == req[r] IN
  /\ rq.pc = "m_log"
  /\ logActivity(r, LogEntry("TASK_STATUS_CHANGED", rq.actor, rq.tid,
                              <<rq.oldStatus, rq.doc.status>>),
                 [rq EXCEPT !.pc = "m_notify"])
  /\ UNCHANGED <<tasks, notifVars, rest>>

\* MEMBER branch: notify the creator, then respond with the task
PutMemberNotify(r) ==
  LET rq == req[r]
      n == taskStatusChanged(rq.tid, rq.actor, rq.doc.createdBy) IN
  /\ rq.pc = "m_notify"
  /\ Notify(r, n, Respond(rq, 200, OK))
  /\ UNCHANGED <<tasks, logVars, rest>>

\* ADMIN / MANAGER branch: the await that follows the status log entry
AfterStatusLog(doc) ==
  IF doc.assignedTo # NULL THEN "a_notify_assignee"
  ELSE IF doc.createdBy # doc.assignedTo THEN "a_notify_creator"
  ELSE "a_assign"

\* ADMIN / MANAGER branch: field updates, the status check and its log entry
PutAdminStatus(r) ==
  LET rq == req[r]
      d1 == IF rq.body.priority # UNDEF
              THEN [rq.doc EXCEPT !.priority = rq.body.priority] ELSE rq.doc
      status == rq.body.status IN
  /\ rq.pc = "put_branch"
  /\ UserRole(rq.actor) # "MEMBER"
  /\ IF status # UNDEF /\ status # d1.status
       THEN IF ~isValidTransition(d1.status, status)
         THEN /\ Update(r, Respond(rq, 400, INVALID_TRANSITION))
              /\ UNCHANGED logVars
         ELSE logActivity(r, LogEntry("TASK_STATUS_CHANGED", rq.actor, rq.tid,
                                      <<d1.status, status>>),
                          [rq EXCEPT !.pc = AfterStatusLog(d1), !.oldStatus = d1.status,
                                     !.doc = ApplyStatus(d1, status)])
       ELSE /\ Update(r, [rq EXCEPT !.pc = "a_assign", !.doc = d1])
            /\ UNCHANGED logVars
  /\ UNCHANGED <<tasks, notifVars, rest>>

\* ADMIN / MANAGER branch: status notification to the assignee
PutAdminNotifyAssignee(r) ==
  LET rq == req[r]
      n == taskStatusChanged(rq.tid, rq.actor, rq.doc.assignedTo) IN
  /\ rq.pc = "a_notify_assignee"
  /\ Notify(r, n, [rq EXCEPT !.pc = IF rq.doc.createdBy # rq.doc.assignedTo
                                      THEN "a_notify_creator" ELSE "a_assign"])
  /\ UNCHANGED <<tasks, logVars, rest>>

\* ADMIN / MANAGER branch: status notification to the creator
PutAdminNotifyCreator(r) ==
  LET rq == req[r]
      n == taskStatusChanged(rq.tid, rq.actor, rq.doc.createdBy) IN
  /\ rq.pc = "a_notify_creator"
  /\ Notify(r, n, [rq EXCEPT !.pc = "a_assign"])
  /\ UNCHANGED <<tasks, logVars, rest>>

\* ADMIN / MANAGER branch: reassignment, its lookup and its log entry
PutAdminAssign(r) ==
  LET rq == req[r]
      assignedTo == rq.body.assignedTo IN
  /\ rq.pc = "a_assign"
  /\ IF assignedTo # UNDEF /\ assignedTo # rq.doc.assignedTo
       THEN IF assignedTo # NULL /\ ~FindUser(assignedTo, UserCompany(rq.actor))
         THEN /\ Update(r, Respond(rq, 404, ASSIGNEE_NOT_FOUND))
              /\ UNCHANGED logVars
         ELSE logActivity(r, LogEntry("TASK_ASSIGNED", rq.actor, rq.tid, <<assignedTo>>),
                          [rq EXCEPT !.pc = IF assignedTo # NULL
                                              THEN "a_assign_notify" ELSE "a_save",
                                     !.doc.assignedTo = assignedTo])
       ELSE /\ Update(r, [rq EXCEPT !.pc = "a_save"])
            /\ UNCHANGED logVars
  /\ UNCHANGED <<tasks, notifVars, rest>>

\* ADMIN / MANAGER branch: assignment notification
PutAdminAssignNotify(r) ==
  LET rq == req[r]
      n == taskAssigned(rq.tid, rq.body.assignedTo, rq.actor) IN
  /\ rq.pc = "a_assign_notify"
  /\ Notify(r, n, [rq EXCEPT !.pc = "a_save"])
  /\ UNCHANGED <<tasks, logVars, rest>>

\* ADMIN / MANAGER branch: task.save(), then respond with the task
PutAdminSave(r) ==
  LET rq == req[r] IN
  /\ rq.pc = "a_save"
  /\ tasks' = [tasks EXCEPT ![rq.tid] = SaveDoc(@, rq.read, rq.doc)]
  /\ Update(r, [Respond(rq, 200, OK) EXCEPT !.saved = TRUE])
  /\ UNCHANGED <<logVars, notifVars, rest>>

\* ------------------------------------------- PATCH /tasks/:id/assign
AssignInputs == {NULL, "mem", "mgr", "out", "gone"}

\* protect, permit('tasks:assign'), then Task.findOne
AssignRead(r, actor, t, assignedTo) ==
  /\ req[r].pc = "idle"
  /\ Len(activityLog) + lostLog < MaxLog
  /\ LET rq == Arrival("assign", actor, t, [NoBody EXCEPT !.assignedTo = assignedTo]) IN
     IF ~permit("tasks:assign", actor)
       THEN Update(r, Respond(rq, 403, ACCESS_DENIED))
       ELSE IF ~FindTask(t, UserCompany(actor))
         THEN Update(r, Respond(rq, 404, TASK_NOT_FOUND))
         ELSE Update(r, [rq EXCEPT !.pc = "as_save", !.read = tasks[t], !.doc = tasks[t]])
  /\ UNCHANGED <<tasks, logVars, notifVars, rest>>

\* the assignee lookup, task.assignedTo = assignedTo || null, task.save()
AssignSave(r) ==
  LET rq == req[r]
      assignedTo == rq.body.assignedTo IN
  /\ rq.pc = "as_save"
  /\ IF assignedTo # NULL /\ ~FindUser(assignedTo, UserCompany(rq.actor))
       THEN /\ Update(r, Respond(rq, 404, ASSIGNEE_NOT_FOUND))
            /\ UNCHANGED tasks
       ELSE LET doc == [rq.doc EXCEPT !.assignedTo = assignedTo] IN
            /\ tasks' = [tasks EXCEPT ![rq.tid] = SaveDoc(@, rq.read, doc)]
            /\ Update(r, [rq EXCEPT !.pc = "as_log", !.doc = doc, !.saved = TRUE])
  /\ UNCHANGED <<logVars, notifVars, rest>>

\* logActivity('TASK_ASSIGNED')
AssignLog(r) ==
  LET rq == req[r] IN
  /\ rq.pc = "as_log"
  /\ logActivity(r, LogEntry("TASK_ASSIGNED", rq.actor, rq.tid, <<rq.body.assignedTo>>),
                 IF rq.body.assignedTo # NULL
                   THEN [rq EXCEPT !.pc = "as_notify"]
                   ELSE Respond(rq, 200, OK))
  /\ UNCHANGED <<tasks, notifVars, rest>>

\* notify.taskAssigned when an assignee was given, then respond with the task
AssignNotify(r) ==
  LET rq == req[r]
      n == taskAssigned(rq.tid, rq.body.assignedTo, rq.actor) IN
  /\ rq.pc = "as_notify"
  /\ Notify(r, n, Respond(rq, 200, OK))
  /\ UNCHANGED <<tasks, logVars, rest>>

\* ------------------------------------------------------- POST /tasks
\* One project per company.
Projects == {"pA", "pB"}
ProjectCompany(p) == IF p = "pA" THEN "A" ELSE "B"
CreateAssignees == {UNDEF, "mem", "out", "gone"}

FreeIds == TaskIds \ DOMAIN tasks

\* protect, permit('tasks:create'), the project and assignee lookups, Task.create
CreateInsert(r, actor, project, assignedTo) ==
  /\ req[r].pc = "idle"
  /\ Len(activityLog) + lostLog < MaxLog
  /\ FreeIds # {}
  /\ LET t == CHOOSE i \in FreeIds : \A j \in FreeIds : i <= j
         rq == Arrival("create", actor, t, [NoBody EXCEPT !.assignedTo = assignedTo]) IN
     IF ~permit("tasks:create", actor)
       THEN /\ Update(r, Respond(rq, 403, ACCESS_DENIED))
            /\ UNCHANGED tasks
       ELSE IF ProjectCompany(project) # UserCompany(actor)
         THEN /\ Update(r, Respond(rq, 404, PROJECT_NOT_FOUND))
              /\ UNCHANGED tasks
         ELSE IF assignedTo # UNDEF /\ ~FindUser(assignedTo, UserCompany(actor))
           THEN /\ Update(r, Respond(rq, 404, ASSIGNEE_NOT_FOUND))
                /\ UNCHANGED tasks
           ELSE LET doc == NewTask(actor, assignedTo, UNDEF) IN
                /\ tasks' = (t :> doc) @@ tasks
                /\ Update(r, [rq EXCEPT !.pc = "c_log", !.read = doc,
                                        !.doc = doc, !.saved = TRUE])
  /\ UNCHANGED <<logVars, notifVars, rest>>

\* logActivity('TASK_CREATED')
CreateLog(r) ==
  LET rq == req[r] IN
  /\ rq.pc = "c_log"
  /\ logActivity(r, LogEntry("TASK_CREATED", rq.actor, rq.tid, <<>>),
                 IF rq.body.assignedTo # UNDEF
                   THEN [rq EXCEPT !.pc = "c_assign_log"]
                   ELSE Respond(rq, 201, OK))
  /\ UNCHANGED <<tasks, notifVars, rest>>

\* logActivity('TASK_ASSIGNED') of a task created with an assignee
CreateAssignLog(r) ==
  LET rq == req[r] IN
  /\ rq.pc = "c_assign_log"
  /\ logActivity(r, LogEntry("TASK_ASSIGNED", rq.actor, rq.tid, <<rq.body.assignedTo>>),
                 [rq EXCEPT !.pc = "c_notify"])
  /\ UNCHANGED <<tasks, notifVars, rest>>

\* notify.taskAssigned, then respond 201 with the task
CreateNotify(r) ==
  LET rq == req[r]
      n == taskAssigned(rq.tid, rq.body.assignedTo, rq.actor) IN
  /\ rq.pc = "c_notify"
  /\ Notify(r, n, Respond(rq, 201, OK))
  /\ UNCHANGED <<tasks, logVars, rest>>

\* ---------------------------------------------------- DELETE /tasks/:id
\* protect, permit('tasks:delete'), then Task.findOne
DeleteRead(r, actor, t) ==
  /\ req[r].pc = "idle"
  /\ Len(activityLog) + lostLog < MaxLog
  /\ LET rq == Arrival("delete", actor, t, NoBody) IN
     IF ~permit("tasks:delete", actor)
       THEN Update(r, Respond(rq, 403, ACCESS_DENIED))
       ELSE IF ~FindTask(t, UserCompany(actor))
         THEN Update(r, Respond(rq, 404, TASK_NOT_FOUND))
         ELSE Update(r, [rq EXCEPT !.pc = "d_save", !.read = tasks[t], !.doc = tasks[t]])
  /\ UNCHANGED <<tasks, logVars, notifVars, rest>>

\* task.softDelete(): isDeleted = true, save()
DeleteSave(r) ==
  LET rq == req[r]
      doc == [rq.doc EXCEPT !.isDeleted = TRUE] IN
  /\ rq.pc = "d_save"
  /\ tasks' = [tasks EXCEPT ![rq.tid] = SaveDoc(@, rq.read, doc)]
  /\ Update(r, [rq EXCEPT !.pc = "d_log", !.doc = doc, !.saved = TRUE])
  /\ UNCHANGED <<logVars, notifVars, rest>>

\* logActivity('TASK_DELETED'), then respond
DeleteLog(r) ==
  LET rq == req[r] IN
  /\ rq.pc = "d_log"
  /\ logActivity(r, LogEntry("TASK_DELETED", rq.actor, rq.tid, <<>>),
                 Respond(rq, 200, TASK_DELETED))
  /\ UNCHANGED <<tasks, notifVars, rest>>

\* ------------------------------------------------------ POST /comments
\* Texts of the comment requests: no mention, a mention of the two members
\* named a / A, a quoted mention of the two-word name, both.
CommentTexts ==
  {<<"a">>, <<"@", "a">>, <<"@", "\"", "a", " ", "a", "\"">>,
   <<"@", "A", " ", "@", "\"", "a", " ", "a", "\"">>}

\* comments.js logActivity(action, user, comment, extra)
CommentLogEntry(action, u, c, meta) ==
  [action |-> action, companyId |-> UserCompany(u), performedBy |-> u,
   targetType |-> "Comment", targetId |-> c, metadata |-> meta]

\* protect, createCommentRules, permit('comments:create'), then Task.findOne
CommentRead(r, actor, t, text) ==
  /\ req[r].pc = "idle"
  /\ Len(activityLog) + lostLog < MaxLog
  /\ LET rq == [Arrival("comment", actor, t, NoBody) EXCEPT !.text = text] IN
     IF ~permit("comments:create", actor)
       THEN Update(r, Respond(rq, 403, ACCESS_DENIED))
       ELSE IF ~FindTask(t, UserCompany(actor))
         THEN Update(r, Respond(rq, 404, TASK_NOT_IN_COMPANY))
         ELSE Update(r, [rq EXCEPT !.pc = "cm_resolve", !.read = tasks[t], !.doc = tasks[t]])
  /\ UNCHANGED <<tasks, logVars, notifVars, rest>>

\* mentions = await resolveMentions(text, req.user.companyId)
CommentResolve(r) ==
  LET rq == req[r] IN
  /\ rq.pc = "cm_resolve"
  /\ Update(r, [rq EXCEPT !.pc = "cm_create",
                          !.mentions = resolveMentions(rq.text, UserCompany(rq.actor))])
  /\ UNCHANGED <<tasks, logVars, notifVars, rest>>

\* Comment.create
CommentCreate(r) ==
  LET rq == req[r] IN
  /\ rq.pc = "cm_create"
  /\ comments' = Append(comments,
       [text |-> rq.text, task |-> rq.tid, companyId |-> UserCompany(rq.actor),
        author |-> rq.actor, mentions |-> rq.mentions, isDeleted |-> FALSE])
  /\ Update(r, [rq EXCEPT !.pc = "cm_log", !.cid = Len(comments) + 1, !.saved = TRUE])
  /\ UNCHANGED <<tasks, logVars, notifVars, emails, env, others>>

\* A loop that notifies every mentioned user
ToMention_All(rq) == rq.mentions

\* the mentioned users left to notify: not the assignee, the creator or the
\* author (alreadyNotified)
ToMention(rq) ==
  SelectSeq(rq.mentions,
            LAMBDA m : m \notin {rq.doc.assignedTo, rq.doc.createdBy, rq.actor})

\* the await that follows the notification of the creator
AfterCreatorNotified(rq) ==
  [rq EXCEPT !.pending = ToMention(rq),
             !.pc = IF ToMention(rq) = <<>> THEN "cm_populate" ELSE "cm_notify_mention"]

\* the await that follows the notification of the assignee
AfterAssigneeNotified(rq) ==
  IF rq.doc.createdBy # rq.doc.assignedTo
    THEN [rq EXCEPT !.pc = "cm_notify_creator"]
    ELSE AfterCreatorNotified(rq)

\* logActivity('COMMENT_ADDED')
CommentLog(r) ==
  LET rq == req[r] IN
  /\ rq.pc = "cm_log"
  /\ logActivity(r, CommentLogEntry("COMMENT_ADDED", rq.actor, rq.cid,
                                     <<rq.tid, Len(rq.mentions)>>),
                 IF rq.doc.assignedTo # NULL
                   THEN [rq EXCEPT !.pc = "cm_notify_assignee"]
                   ELSE AfterAssigneeNotified(rq))
  /\ UNCHANGED <<tasks, notifVars, rest>>

\* notify.commentAdded to the assignee
CommentNotifyAssignee(r) ==
  LET rq == req[r]
      n == commentAdded(rq.tid, rq.actor, rq.doc.assignedTo) IN
  /\ rq.pc = "cm_notify_assignee"
  /\ Notify(r, n, AfterAssigneeNotified(rq))
  /\ UNCHANGED <<tasks, logVars, rest>>

\* notify.commentAdded to the creator
CommentNotifyCreator(r) ==
  LET rq == req[r]
      n == commentAdded(rq.tid, rq.actor, rq.doc.createdBy) IN
  /\ rq.pc = "cm_notify_creator"
  /\ Notify(r, n, AfterCreatorNotified(rq))
  /\ UNCHANGED <<tasks, logVars, rest>>

\* notify.commentMentioned, one turn of the loop over the mentions
CommentNotifyMention(r) ==
  LET rq == req[r]
      n == commentMentioned(rq.tid, rq.actor, Head(rq.pending)) IN
  /\ rq.pc = "cm_notify_mention"
  /\ Notify(r, n, [rq EXCEPT !.pending = Tail(@),
                             !.pc = IF Tail(rq.pending) = <<>>
                                      THEN "cm_populate" ELSE "cm_notify_mention"])
  /\ UNCHANGED <<tasks, logVars, rest>>

\* comment.populate, then respond 201 with the comment
CommentRespond(r) ==
  LET rq == req[r] IN
  /\ rq.pc = "cm_populate"
  /\ Update(r, Respond(rq, 201, OK))
  /\ UNCHANGED <<tasks, logVars, notifVars, rest>>

\* ------------------------------------------------------------- e-mail
\* A mail whose failure takes the stored notification back
MailSend_Rollback ==
  \E i \in 1..Len(outbox), ok \in BOOLEAN :
    /\ outbox' = SubSeq(outbox, 1, i - 1) \o SubSeq(outbox, i + 1, Len(outbox))
    /\ emails' = IF ok THEN Append(emails, outbox[i]) ELSE emails
    /\ notifications' = IF ok THEN notifications
                              ELSE SelectSeq(notifications, LAMBDA n : n # outbox[i])
    /\ UNCHANGED <<tasks, logVars, emitted, req, comments, env, others>>

\* A sendNotificationEmail call in flight ends: transporter.sendMail accepts
\* the mail, or it rejects and the error is caught and written to the console.
MailSend ==
  \E i \in 1..Len(outbox), ok \in BOOLEAN :
    /\ outbox' = SubSeq(outbox, 1, i - 1) \o SubSeq(outbox, i + 1, Len(outbox))
    /\ emails' = IF ok THEN Append(emails, outbox[i]) ELSE emails
    /\ UNCHANGED <<tasks, logVars, notifications, emitted, req, comments, env, others>>

\* The response has been sent; the connection serves the next request.
Finish(r) ==
  /\ req[r].pc = "done"
  /\ Update(r, Idle)
  /\ UNCHANGED <<tasks, logVars, notifVars, rest>>

\* ------------------------------------------------------ GET /tasks/:id
\* req.params.id: the ids of TaskIds and an id that nothing stored has
TargetIds == 1..(MaxTasks + 1)

\* Task.findOne({ _id, companyId }), with assignedTo for a MEMBER
FindOwnTask(t, actor) ==
  /\ FindTask(t, UserCompany(actor))
  /\ UserRole(actor) = "MEMBER" => tasks[t].assignedTo = actor

\* protect, permit('tasks:read'), Task.findOne(filter), respond with the task
TaskGet(r, actor, t) ==
  /\ req[r].pc = "idle"
  /\ LET rq == Arrival("get", actor, t, NoBody) IN
     IF ~permit("tasks:read", actor)
       THEN Update(r, Respond(rq, 403, ACCESS_DENIED))
       ELSE IF ~FindOwnTask(t, actor)
         THEN Update(r, Respond(rq, 404, TASK_NOT_FOUND))
         ELSE Update(r, [Respond(rq, 200, OK) EXCEPT !.result = <<t>>])
  /\ UNCHANGED <<tasks, logVars, notifVars, rest>>

\* ---------------------------------------------------------- GET /tasks
\* req.query: the filters on fields of the modelled task
ListQueries ==
  [status : Statuses \cup {UNDEF}, priority : {UNDEF, "HIGH"},
   assignedTo : {UNDEF, "mem", "mgr", "out"}]

\* filter = { companyId }; a MEMBER gets filter.assignedTo = own id; then
\* the query's status, priority and assignedTo are copied onto the filter
ListFilter(actor, query) ==
  LET f0 == [companyId |-> UserCompany(actor), assignedTo |-> UNDEF,
             status |-> UNDEF, priority |-> UNDEF]
      f1 == IF UserRole(actor) = "MEMBER" THEN [f0 EXCEPT !.assignedTo = actor] ELSE f0
      f2 == IF query.status # UNDEF THEN [f1 EXCEPT !.status = query.status] ELSE f1
      f3 == IF query.priority # UNDEF THEN [f2 EXCEPT !.priority = query.priority] ELSE f2
  IN IF query.assignedTo # UNDEF THEN [f3 EXCEPT !.assignedTo = query.assignedTo] ELSE f3

\* a stored task matches the filter; the find hook hides deleted tasks
Matches(doc, filter) ==
  /\ ~doc.isDeleted
  /\ doc.companyId = filter.companyId
  /\ filter.assignedTo # UNDEF => doc.assignedTo = filter.assignedTo
  /\ filter.status # UNDEF => doc.status = filter.status
  /\ filter.priority # UNDEF => doc.priority = filter.priority

\* the ids n, n-1, .. 1: sort({ createdAt: -1 })
RECURSIVE Newest(_)
Newest(n) == IF n = 0 THEN <<>> ELSE <<n>> \o Newest(n - 1)

\* protect, permit('tasks:list'), Task.find(filter), first page
TaskList(r, actor, query) ==
  /\ req[r].pc = "idle"
  /\ LET rq == Arrival("list", actor, 0, query) IN
     IF ~permit("tasks:list", actor)
       THEN Update(r, Respond(rq, 403, ACCESS_DENIED))
       ELSE Update(r, [Respond(rq, 200, OK) EXCEPT !.result =
              SelectSeq(Newest(Len(tasks)),
                        LAMBDA t : Matches(tasks[t], ListFilter(actor, query)))])
  /\ UNCHANGED <<tasks, logVars, notifVars, rest>>

\* ------------------------------------------------------- GET /comments

\* protect, permit('comments:list'), then Task.findOne
CommentListRead(r, actor, t) ==
  /\ req[r].pc = "idle"
  /\ LET rq == Arrival("clist", actor, t, NoBody) IN
     IF ~permit("comments:list", actor)
       THEN Update(r, Respond(rq, 403, ACCESS_DENIED))
       ELSE IF ~FindTask(t, UserCompany(actor))
         THEN Update(r, Respond(rq, 404, TASK_NOT_IN_COMPANY))
         ELSE Update(r, [rq EXCEPT !.pc = "cl_find"])
  /\ UNCHANGED <<tasks, logVars, notifVars, rest>>

\* Comment.find({ task, companyId }) sorted by createdAt; the find hook
\* hides deleted comments
CommentListFind(r) ==
  LET rq == req[r] IN
  /\ rq.pc = "cl_find"
  /\ Update(r, [Respond(rq, 200, OK) EXCEPT !.result =
       SelectSeq([i \in 1..Len(comments) |-> i],
                 LAMBDA c : /\ comments[c].task = rq.tid
                            /\ comments[c].companyId = UserCompany(rq.actor)
                            /\ ~comments[c].isDeleted)])
  /\ UNCHANGED <<tasks, logVars, notifVars, rest>>

\* --------------------------------------------------- DELETE /comments/:id
\* Comment.findOne({ _id, companyId })
FindComment(c, companyId) ==
  c \in DOMAIN comments /\ comments[c].companyId = companyId /\ ~comments[c].isDeleted

\* protect, permit('comments:delete'), then Comment.findOne
CommentDeleteRead(r, actor, c) ==
  /\ req[r].pc = "idle"
  /\ Len(activityLog) + lostLog < MaxLog
  /\ LET rq == [Arrival("cdelete", actor, 0, NoBody) EXCEPT !.cid = c] IN
     IF ~permit("comments:delete", actor)
       THEN Update(r, Respond(rq, 403, ACCESS_DENIED))
       ELSE IF ~FindComment(c, UserCompany(actor))
         THEN Update(r, Respond(rq, 404, "Comment not found"))
         ELSE Update(r, [rq EXCEPT !.pc = "cd_save"])
  /\ UNCHANGED <<tasks, logVars, notifVars, rest>>

\* comment.softDelete(): isDeleted = true, save()
CommentDeleteSave(r) ==
  LET rq == req[r] IN
  /\ rq.pc = "cd_save"
  /\ comments' = [comments EXCEPT ![rq.cid].isDeleted = TRUE]
  /\ Update(r, [rq EXCEPT !.pc = "cd_log", !.saved = TRUE])
  /\ UNCHANGED <<tasks, logVars, notifVars, emails, env, others>>

\* logActivity('COMMENT_DELETED'), then respond
CommentDeleteLog(r) ==
  LET rq == req[r] IN
  /\ rq.pc = "cd_log"
  /\ logActivity(r, CommentLogEntry("COMMENT_DELETED", rq.actor, rq.cid, <<>>),
                 Respond(rq, 200, "Comment deleted"))
  /\ UNCHANGED <<tasks, notifVars, rest>>

\* ------------------------------------- notifications (routes/notifications.js)
\* A lookup by id alone
FindNotification_AnyRecipient(n, actor) == n \in DOMAIN notifications

\* Notification.findOne({ _id: n, recipient: req.user._id })
FindNotification(n, actor) ==
  n \in DOMAIN notifications /\ notifications[n].recipient = actor

\* PATCH /notifications/:id/read: findOne, read = true, readAt = new Date(),
\* save, respond with the notification
MarkRead(r, actor, n) ==
  /\ req[r].pc = "idle"
  /\ LET rq == [Arrival("markread", actor, 0, NoBody) EXCEPT !.cid = n] IN
     IF ~FindNotification(n, actor)
       THEN /\ Update(r, Respond(rq, 404, "Notification not found"))
            /\ UNCHANGED notifications
       ELSE /\ notifications' = [notifications EXCEPT ![n].read = TRUE, ![n].readAt = DATE]
            /\ Update(r, [Respond(rq, 200, OK) EXCEPT !.result = <<n>>])
  /\ UNCHANGED <<tasks, logVars, emitted, outbox, rest>>

\* PATCH /notifications/read-all: updateMany({ recipient, companyId,
\* read: false }, { $set: { read: true, readAt: new Date() } })
ReadAll(r, actor) ==
  /\ req[r].pc = "idle"
  /\ LET rq == Arrival("readall", actor, 0, NoBody)
         mine == {i \in DOMAIN notifications :
                    /\ notifications[i].recipient = actor
                    /\ notifications[i].companyId = UserCompany(actor)
                    /\ ~notifications[i].read} IN
     /\ notifications' = [i \in DOMAIN notifications |->
          IF i \in mine
            THEN [notifications[i] EXCEPT !.read = TRUE, !.readAt = DATE]
            ELSE notifications[i]]
     /\ Update(r, [Respond(rq, 200, OK) EXCEPT !.nnotif = Cardinality(mine)])
  /\ UNCHANGED <<tasks, logVars, emitted, outbox, rest>>

\* --------------------------------------------- socket.io (server.js)
SocketIds == 1..MaxSockets

\* socket.handshake.auth.token: absent, or a token that names a user and is
\* signed with JWT_SECRET and unexpired ("valid"), expired, or not signed
\* with JWT_SECRET ("forged").  A token outlives the soft delete of its user.
NoToken == [kind |-> "none", id |-> NULL]
Tokens == [kind : {"valid", "expired", "forged"}, id : Users \cup {"gone"}] \cup {NoToken}


\* A handshake that reads the payload without checking signature and expiry
verify_Decode(token) == TRUE

\* jwt.verify(token, JWT_SECRET) returns the payload; it throws otherwise
verify(token) == token.kind = "valid"

NoSocket ==
  [status |-> "closed", token |-> NoToken, userId |-> NULL, rooms |-> {},
   received |-> <<>>, error |-> NULL]

\* io.use(...): the handshake of a new connection
Handshake(s, token) ==
  /\ sockets[s].status = "closed"
  /\ sockets' = [sockets EXCEPT ![s] =
       IF token = NoToken
         THEN [NoSocket EXCEPT !.error = "Authentication required"]
         ELSE IF ~verify(token)
           THEN [NoSocket EXCEPT !.token = token, !.error = "Invalid token"]
           ELSE [NoSocket EXCEPT !.token = token, !.status = "handshake",
                                 !.userId = token.id]]
  /\ UNCHANGED <<tasks, logVars, notifVars, req, comments, emails, env, signupVars,
                 projectVars>>

\* io.on('connection'): socket.join(socket.userId)
Connection(s) ==
  /\ sockets[s].status = "handshake"
  /\ sockets' = [sockets EXCEPT ![s].status = "connected",
                                ![s].rooms = @ \cup {sockets[s].userId}]
  /\ UNCHANGED <<tasks, logVars, notifVars, req, comments, emails, env, signupVars,
                 projectVars>>

\* socket.on('disconnect'): socket.leave(socket.userId)
Disconnect(s) ==
  /\ sockets[s].status = "connected"
  /\ sockets' = [sockets EXCEPT ![s].status = "closed",
                                ![s].rooms = @ \ {sockets[s].userId}]
  /\ UNCHANGED <<tasks, logVars, notifVars, req, comments, emails, env, signupVars,
                 projectVars>>

\* notificationService.emit(recipientId, notification):
\* io.to(String(recipientId)).emit('notification', notification)
Emit(n) ==
  /\ env.io
  /\ \A s \in SocketIds : Len(sockets[s].received) < MaxEvents
  /\ sockets' = [s \in SocketIds |->
       IF n.recipient \in sockets[s].rooms
         THEN [sockets[s] EXCEPT !.received = Append(@, n)]
         ELSE sockets[s]]
  /\ UNCHANGED <<tasks, logVars, notifVars, req, comments, emails, env, signupVars,
                 projectVars>>

\* ------------------------------------------- POST /auth/signup (auth.js)
\* req.body.companyName after trim: names that differ in case or in a
\* character the slug drops, a name of two words, a name of no slug character
CompanyNames == {<<"A">>, <<"a", ".">>, <<"A", " ", "a">>, <<".">>}

\* name.replace(/\s+/g, '-'): every run of blanks becomes one '-'
RECURSIVE Hyphenate(_)
Hyphenate(name) ==
  IF name = <<>> THEN <<>>
  ELSE IF Head(name) # " " THEN <<Head(name)>> \o Hyphenate(Tail(name))
  ELSE IF Len(name) > 1 /\ name[2] = " " THEN Hyphenate(Tail(name))
  ELSE <<"-">> \o Hyphenate(Tail(name))

\* toSlug(name): lower case, blanks to '-', then only [a-z0-9-] is kept
toSlug(name) ==
  SelectSeq(Hyphenate([i \in 1..Len(name) |-> toLowerCase(name[i])]),
            LAMBDA c : c \in {"a", "-"})


\* A signup request: the fields of req.body the handler still reads, its
\* slug and role, its response
NoSignup ==
  [pc |-> "idle", email |-> NULL, requestedRole |-> UNDEF, slug |-> <<>>,
   role |-> NULL, resp |-> 0, msg |-> NULL]

\* the storage step rejects: only where writes may reject
Rejects == IF env.dbFaults THEN BOOLEAN ELSE {FALSE}

\* res.status(code).json(...) or next(error): the signup handler returns
SignupRespond(r, code, msg) ==
  signups' = [signups EXCEPT ![r] = [NoSignup EXCEPT !.pc = "done", !.resp = code,
                                                     !.msg = msg]]

\* signupRules, then User.findOne({ email }); the find hook hides deleted users
SignupFindUser(r, email, companyName, requestedRole) ==
  /\ signups[r].pc = "idle"
  /\ \A q \in 1..(r - 1) : signups[q].pc # "idle"
  /\ Len(accounts) < MaxAccounts
  /\ IF \E i \in 1..Len(accounts) : accounts[i].email = email /\ ~accounts[i].isDeleted
       THEN SignupRespond(r, 400, "User already exists with this email")
       ELSE signups' = [signups EXCEPT ![r] =
              [NoSignup EXCEPT !.pc = "s_company", !.email = email,
                               !.requestedRole = requestedRole,
                               !.slug = toSlug(companyName)]]
  /\ UNCHANGED <<tasks, logVars, notifVars, req, comments, emails, env, socketVars,
                 companies, accounts, projectVars>>

\* Company.findOne({ slug }), then the role: ADMIN after Company.create,
\* else the requested role when it is MANAGER or MEMBER, else MEMBER
SignupFindCompany(r) ==
  LET rq == signups[r] IN
  /\ rq.pc = "s_company"
  /\ IF \E i \in 1..Len(companies) : companies[i].slug = rq.slug /\ ~companies[i].isDeleted
       THEN signups' = [signups EXCEPT ![r].pc = "s_user", ![r].requestedRole = UNDEF,
              ![r].role = IF rq.requestedRole \in {"MANAGER", "MEMBER"}
                            THEN rq.requestedRole ELSE "MEMBER"]
       ELSE signups' = [signups EXCEPT ![r].pc = "s_create", ![r].requestedRole = UNDEF]
  /\ UNCHANGED <<tasks, logVars, notifVars, req, comments, emails, env, socketVars,
                 companies, accounts, projectVars>>

\* Company.create({ name, slug }): slug is required and unique
SignupCreateCompany(r) ==
  LET rq == signups[r] IN
  /\ rq.pc = "s_create"
  /\ \E rejected \in Rejects :
       IF rq.slug = <<>>
         THEN SignupRespond(r, 400, "Validation failed") /\ UNCHANGED companies
         ELSE IF \E i \in 1..Len(companies) : companies[i].slug = rq.slug
           THEN SignupRespond(r, 409, "Duplicate value") /\ UNCHANGED companies
           ELSE IF rejected
             THEN SignupRespond(r, 500, SERVER_ERROR) /\ UNCHANGED companies
             ELSE /\ companies' = Append(companies, [slug |-> rq.slug, isDeleted |-> FALSE])
                  /\ signups' = [signups EXCEPT ![r].pc = "s_user", ![r].role = "ADMIN"]
  /\ UNCHANGED <<tasks, logVars, notifVars, req, comments, emails, env, socketVars,
                 accounts, projectVars>>

\* The ActivityLog.create calls of signup for the new user, not awaited
SignupLog(rq, user) ==
  (IF rq.role = "ADMIN"
     THEN <<[action |-> "COMPANY_CREATED", companyId |-> rq.slug, performedBy |-> user,
             targetType |-> "Company", targetId |-> rq.slug, metadata |-> <<>>]>>
     ELSE <<>>)
  \o <<[action |-> "USER_JOINED", companyId |-> rq.slug, performedBy |-> user,
         targetType |-> "User", targetId |-> user, metadata |-> <<>>]>>

\* User.create({ email, companyId: slug, role }): email is unique; then the
\* activity log entries, each of which may be lost, and 201
SignupCreateUser(r) ==
  LET rq == signups[r] IN
  /\ rq.pc = "s_user"
  /\ \E rejected \in Rejects :
       IF \E i \in 1..Len(accounts) : accounts[i].email = rq.email
         THEN SignupRespond(r, 409, "Duplicate value") /\ UNCHANGED <<accounts, logVars>>
         ELSE IF rejected
           THEN SignupRespond(r, 500, SERVER_ERROR) /\ UNCHANGED <<accounts, logVars>>
           ELSE /\ accounts' = Append(accounts, [email |-> rq.email, companyId |-> rq.slug,
                                                  role |-> rq.role, isDeleted |-> FALSE])
                /\ \E lost \in Rejects :
                     /\ activityLog' = IF lost THEN activityLog
                                        ELSE activityLog \o SignupLog(rq, Len(accounts) + 1)
                     /\ lostLog' = IF lost THEN lostLog + 1 ELSE lostLog
                /\ SignupRespond(r, 201, "Created")
  /\ UNCHANGED <<tasks, notifVars, req, comments, emails, env, socketVars,
                 companies, projectVars>>

\* The response has been sent
SignupFinish(r) ==
  /\ signups[r].pc = "done"
  /\ signups' = [signups EXCEPT ![r] = NoSignup]
  /\ UNCHANGED <<tasks, logVars, notifVars, req, comments, emails, env, socketVars,
                 companies, accounts, projectVars>>

\* ------------------------------------------------ projects (routes/projects.js)
\* projects.js logActivity(action, user, project, extra)
ProjectLogEntry(action, u, p, meta) ==
  [action |-> action, companyId |-> UserCompany(u), performedBy |-> u,
   targetType |-> "Project", targetId |-> p, metadata |-> meta]

\* Project.findOne({ _id: p, companyId }); the find hook hides deleted projects
FindProject(p, companyId) ==
  p \in DOMAIN projects /\ projects[p].companyId = companyId /\ ~projects[p].isDeleted

\* project.populate(populateFields): the members that User.find returns,
\* looked up by id alone; the find hook hides deleted users
Populate(members) == {u \in members : u \in Users}

\* POST /projects: permit('projects:create'), memberSet of req.body.members
\* and the creator, Project.create, populate, logActivity, 201
ProjectCreate(r, actor, members) ==
  /\ req[r].pc = "idle"
  /\ Len(activityLog) + lostLog < MaxLog
  /\ Len(projects) < MaxProjects
  /\ LET rq == Arrival("p_create", actor, Len(projects) + 1, NoBody)
         memberSet == members \cup {actor} IN
     IF ~permit("projects:create", actor)
       THEN /\ Update(r, Respond(rq, 403, ACCESS_DENIED))
            /\ UNCHANGED <<projects, logVars>>
       ELSE /\ projects' = Append(projects,
                 [companyId |-> UserCompany(actor), createdBy |-> actor,
                  members |-> memberSet, isDeleted |-> FALSE])
            /\ logActivity(r, ProjectLogEntry("PROJECT_CREATED", actor, rq.tid, <<>>),
                           [Respond(rq, 201, OK) EXCEPT !.result = Populate(memberSet)])
  /\ UNCHANGED <<tasks, notifVars, comments, emails, env, socketVars, signupVars,
                 goals, background>>

\* POST /projects/:id/members: permit('projects:add-member'),
\* Project.findOne, User.find({ _id: { $in: userIds }, companyId }), push of
\* the ids that are not members yet, save and logActivity when one was added
AddMembers(r, actor, p, userIds) ==
  /\ req[r].pc = "idle"
  /\ Len(activityLog) + lostLog < MaxLog
  /\ LET rq == Arrival("p_add", actor, p, NoBody) IN
     IF ~permit("projects:add-member", actor)
       THEN /\ Update(r, Respond(rq, 403, ACCESS_DENIED))
            /\ UNCHANGED <<projects, logVars>>
       ELSE IF ~FindProject(p, UserCompany(actor))
         THEN /\ Update(r, Respond(rq, 404, "Project not found"))
              /\ UNCHANGED <<projects, logVars>>
         ELSE LET validIds == {u \in userIds : FindUser(u, UserCompany(actor))}
                  added == validIds \ projects[p].members IN
              IF added = {}
                THEN /\ Update(r, [Respond(rq, 200, OK) EXCEPT
                                     !.result = Populate(projects[p].members)])
                     /\ UNCHANGED <<projects, logVars>>
                ELSE /\ projects' = [projects EXCEPT ![p].members = @ \cup added]
                     /\ logActivity(r, ProjectLogEntry("PROJECT_UPDATED", actor, p, added),
                                    [Respond(rq, 200, OK) EXCEPT
                                       !.result = Populate(projects[p].members \cup added)])
  /\ UNCHANGED <<tasks, notifVars, comments, emails, env, socketVars, signupVars,
                 goals, background>>

\* DELETE /projects/:id/members/:userId: permit('projects:remove-member'),
\* Project.findOne, members.filter, 404 when nothing was removed, save,
\* logActivity
RemoveMember(r, actor, p, userId) ==
  /\ req[r].pc = "idle"
  /\ Len(activityLog) + lostLog < MaxLog
  /\ LET rq == Arrival("p_remove", actor, p, NoBody) IN
     IF ~permit("projects:remove-member", actor)
       THEN /\ Update(r, Respond(rq, 403, ACCESS_DENIED))
            /\ UNCHANGED <<projects, logVars>>
       ELSE IF ~FindProject(p, UserCompany(actor))
         THEN /\ Update(r, Respond(rq, 404, "Project not found"))
              /\ UNCHANGED <<projects, logVars>>
         ELSE IF userId \notin projects[p].members
           THEN /\ Update(r, Respond(rq, 404, "User is not a member of this project"))
                /\ UNCHANGED <<projects, logVars>>
           ELSE /\ projects' = [projects EXCEPT ![p].members = @ \ {userId}]
                /\ logActivity(r, ProjectLogEntry("PROJECT_UPDATED", actor, p, {userId}),
                               [Respond(rq, 200, OK) EXCEPT
                                  !.result = Populate(projects[p].members \ {userId})])
  /\ UNCHANGED <<tasks, notifVars, comments, emails, env, socketVars, signupVars,
                 goals, background>>

\* ---------------------------------------------------- goals (routes/goals.js)
\* The Notification schema: the enums of type and relatedType
Validates(n) ==
  /\ n.type \in {"TASK_ASSIGNED", "TASK_STATUS_CHANGED", "COMMENT_ADDED",
                  "COMMENT_MENTIONED"}
  /\ n.relatedType \in {"Task", "Comment", NULL}

\* notify.goalAssigned: what create() hands to Notification.create
goalAssigned(goal, userId, actor) ==
  IF userId = actor
    THEN <<>>
    ELSE <<[recipient |-> userId, type |-> "GOAL_ASSIGNED",
            companyId |-> UserCompany(actor), triggeredBy |-> actor,
            relatedType |-> "Goal", relatedId |-> goal, read |-> FALSE,
            readAt |-> NULL]>>

\* POST /goals: permit('goals:create'), User.findOne, Project.findOne,
\* UserGoal.create (one goal per user, project and month), the call of
\* notify.goalAssigned that nothing awaits, 201
GoalCreate(r, actor, userId, p) ==
  /\ req[r].pc = "idle"
  /\ background = <<>>
  /\ LET rq == [Arrival("goal", actor, p, NoBody) EXCEPT
                  !.body = [userId |-> userId, projectId |-> p]] IN
     IF ~permit("goals:create", actor)
       THEN /\ Update(r, Respond(rq, 403, ACCESS_DENIED))
            /\ UNCHANGED <<goals, background>>
       ELSE IF ~FindUser(userId, UserCompany(actor))
         THEN /\ Update(r, Respond(rq, 404, "User not found"))
              /\ UNCHANGED <<goals, background>>
         ELSE IF ~FindProject(p, UserCompany(actor))
           THEN /\ Update(r, Respond(rq, 404, "Project not found"))
                /\ UNCHANGED <<goals, background>>
           ELSE IF \E g \in 1..Len(goals) : goals[g].user = userId /\ goals[g].project = p
             THEN /\ Update(r, Respond(rq, 409, "A goal already exists for this user, project, and month"))
                  /\ UNCHANGED <<goals, background>>
             ELSE /\ goals' = Append(goals, [user |-> userId, project |-> p,
                                             companyId |-> UserCompany(actor),
                                             isDeleted |-> FALSE])
                  /\ background' = background
                                     \o goalAssigned(Len(goals) + 1, userId, actor)
                  /\ Update(r, [Respond(rq, 201, OK) EXCEPT !.cid = Len(goals) + 1])
  /\ UNCHANGED <<tasks, logVars, notifVars, comments, emails, env, socketVars,
                 signupVars, projects>>

\* Notification.create of a call nothing awaits: the document is validated
\* against the schema and stored, emitted and mailed, or the rejection is
\* swallowed by .catch(() => {})
BackgroundNotify ==
  /\ background # <<>>
  /\ LET n == <<Head(background)>> IN
     IF Validates(n[1])
       THEN /\ notifications' = notifications \o n
            /\ emitted' = emitted \o emit(n)
            /\ outbox' = outbox \o sendNotificationEmail(n)
       ELSE UNCHANGED notifVars
  /\ background' = Tail(background)
  /\ UNCHANGED <<tasks, logVars, req, comments, emails, env, socketVars, signupVars,
                 projects, goals>>

\* The other routes at start-up: no connection is open, no signup is in
\* flight, and there is no company, user, project or goal
NoOthers ==
  /\ sockets = [s \in SocketIds |-> NoSocket]
  /\ signups = [r \in Slots |-> NoSignup]
  /\ companies = <<>>
  /\ accounts = <<>>
  /\ projects = <<>>
  /\ goals = <<>>
  /\ background = <<>>

\* ------------------------------------------------------ specification
\* Stored tasks at start-up: states a run of one-at-a-time requests leaves.
SeedTasks ==
  {t \in [companyId : {"A"}, createdBy : {"mgr"}, assignedTo : {NULL, "mem", "mgr"},
          status : Statuses, completedAt : {NULL, DATE}, priority : {"MEDIUM"},
          isDeleted : {FALSE}] :
     (t.completedAt # NULL) <=> (t.status = "DONE")}

\* The store and the channels at start-up, for the given stored tasks
InitStore(seeds) ==
  /\ tasks \in {<<>>} \cup {<<t>> : t \in seeds}
  /\ activityLog = <<>>
  /\ notifications = <<>>
  /\ req = [r \in Slots |-> Idle]
  /\ comments = <<>>
  /\ emitted = <<>>
  /\ outbox = <<>>
  /\ emails = <<>>
  /\ lostLog = 0

Init == InitStore(SeedTasks) /\ env = Healthy /\ NoOthers

\* A request arrives
Arrive(r) ==
  \/ \E actor \in Actors, t \in TaskIds, body \in PutBodies : PutRead(r, actor, t, body)
  \/ \E actor \in Actors, t \in TaskIds, a \in AssignInputs : AssignRead(r, actor, t, a)
  \/ \E actor \in Actors, p \in Projects, a \in CreateAssignees : CreateInsert(r, actor, p, a)

\* A request in flight takes its next step
Step(r) ==
  \/ PutMember(r) \/ PutMemberLog(r) \/ PutMemberNotify(r)
  \/ PutAdminStatus(r) \/ PutAdminNotifyAssignee(r) \/ PutAdminNotifyCreator(r)
  \/ PutAdminAssign(r) \/ PutAdminAssignNotify(r) \/ PutAdminSave(r)
  \/ AssignSave(r) \/ AssignLog(r) \/ AssignNotify(r)
  \/ CreateLog(r) \/ CreateAssignLog(r) \/ CreateNotify(r)
  \/ Finish(r)

\* Requests one at a time: one connection, whose next request arrives after
\* the response to the one before.
SeqNext == Arrive(1) \/ Step(1)

SeqSpec == Init /\ [][SeqNext]_vars

\* Concurrent requests: status changes, alone or with a reassignment,
\* dedicated reassignments and task creation, in flight on every connection
\* at once.
RaceActors == {"adm", "mem"}
RaceBodies == [status : Statuses, priority : {UNDEF}, assignedTo : {UNDEF, NULL, "mem"}]

RaceArrive(r) ==
  \/ \E actor \in RaceActors, t \in TaskIds, body \in RaceBodies : PutRead(r, actor, t, body)
  \/ \E t \in TaskIds, a \in {NULL, "mem"} : AssignRead(r, "adm", t, a)
  \/ CreateInsert(r, "adm", "pA", "mem")

Next == \E r \in Slots : RaceArrive(r) \/ Step(r)

Spec == Init /\ [][Next]_vars

\* Comments one at a time, on a task created by the ADMIN or the MANAGER.
CommentSeeds ==
  [companyId : {"A"}, createdBy : {"adm", "mgr"}, assignedTo : {NULL, "mem", "mgr"},
   status : {"TODO"}, completedAt : {NULL}, priority : {"MEDIUM"}, isDeleted : {FALSE}]

CommentInit == InitStore(CommentSeeds) /\ env = Healthy /\ NoOthers

CommentStep(r) ==
  \/ CommentResolve(r) \/ CommentCreate(r) \/ CommentLog(r)
  \/ CommentNotifyAssignee(r) \/ CommentNotifyCreator(r) \/ CommentNotifyMention(r)
  \/ CommentRespond(r)

CommentNext ==
  \/ \E actor \in Actors, t \in TaskIds, text \in CommentTexts : CommentRead(1, actor, t, text)
  \/ CommentStep(1)
  \/ Finish(1)

CommentSpec == CommentInit /\ [][CommentNext]_vars

\* resolveMentions on every text: a comment request of a member of either
\* company that has found its task and is about to resolve the mentions of
\* its text, any trimmed, non-empty text of up to MaxText characters.
MentionTexts ==
  {t \in UNION {[1..n -> Chars] : n \in 1..MaxText} : t[1] # " " /\ t[Len(t)] # " "}

MentionInit ==
  /\ \E actor \in {"mem", "out"} :
       /\ tasks = <<NewTask(IF actor = "out" THEN "out" ELSE "mgr", UNDEF, UNDEF)>>
       /\ \E text \in MentionTexts :
            req = [r \in Slots |->
                    IF r = 1
                      THEN [Idle EXCEPT !.op = "comment", !.actor = actor, !.tid = 1,
                                        !.text = text, !.pre = <<tasks, <<>>, <<>>, <<>>>>,
                                        !.pc = "cm_resolve", !.read = tasks[1],
                                        !.doc = tasks[1]]
                      ELSE Idle]
  /\ activityLog = <<>>
  /\ notifications = <<>>
  /\ comments = <<>>
  /\ emitted = <<>>
  /\ outbox = <<>>
  /\ emails = <<>>
  /\ lostLog = 0
  /\ env = Healthy
  /\ NoOthers

MentionNext == CommentResolve(1)

MentionSpec == MentionInit /\ [][MentionNext]_vars

\* Requests one at a time in any environment: the socket server set or not,
\* the users connected or not, SMTP configured or not, mails that fail, and
\* writes to ActivityLog and Notification that may reject.
FaultSeeds ==
  [companyId : {"A"}, createdBy : {"mgr"}, assignedTo : {NULL, "mem"},
   status : {"TODO"}, completedAt : {NULL}, priority : {"MEDIUM"}, isDeleted : {FALSE}]

FaultBodies == [status : {"IN_PROGRESS"}, priority : {UNDEF}, assignedTo : {UNDEF, "mem"}]

FaultInit == InitStore(FaultSeeds) /\ env \in Environments /\ NoOthers

FaultArrive(r) ==
  \/ \E actor \in RaceActors, t \in TaskIds, body \in FaultBodies : PutRead(r, actor, t, body)
  \/ \E t \in TaskIds : AssignRead(r, "adm", t, "mem")
  \/ CreateInsert(r, "adm", "pA", "mem")
  \/ \E t \in TaskIds : DeleteRead(r, "adm", t)
  \/ \E actor \in RaceActors, t \in TaskIds : CommentRead(r, actor, t, <<"@", "a">>)

FaultNext ==
  \/ FaultArrive(1) \/ Step(1) \/ DeleteSave(1) \/ DeleteLog(1) \/ CommentStep(1)
  \/ MailSend

FaultSpec == FaultInit /\ [][FaultNext]_vars

\* Connections that open, close and are refused while notifications are
\* emitted to the members of either company (the ADMIN is notified by the
\* MANAGER, everybody else by the ADMIN).
SocketInit == InitStore({}) /\ env = Healthy /\ NoOthers

SocketNext ==
  \/ \E s \in SocketIds, token \in Tokens : Handshake(s, token)
  \/ \E s \in SocketIds : Connection(s) \/ Disconnect(s)
  \/ \E u \in Users : Emit(taskAssigned(1, u, IF u = "adm" THEN "mgr" ELSE "adm")[1])

SocketSpec == SocketInit /\ [][SocketNext]_vars

\* Requests one at a time by the members of both companies, addressed to
\* the stored task or comment of either company or to an id nothing has.
TenantSeeds ==
  [companyId : {"A"}, createdBy : {"mgr"}, assignedTo : {NULL, "mem", "mgr"},
   status : {"TODO"}, completedAt : {NULL}, priority : {"MEDIUM"}, isDeleted : {FALSE}]
  \cup
  [companyId : {"B"}, createdBy : {"out"}, assignedTo : {NULL, "out"},
   status : {"TODO"}, completedAt : {NULL}, priority : {"MEDIUM"}, isDeleted : {FALSE}]

TenantInit ==
  /\ tasks \in {<<t>> : t \in TenantSeeds}
  /\ comments \in {<<>>, <<[text |-> <<"a">>, task |-> 1, companyId |-> tasks[1].companyId,
                            author |-> tasks[1].createdBy, mentions |-> <<>>,
                            isDeleted |-> FALSE]>>}
  /\ activityLog = <<>>
  /\ notifications = <<>>
  /\ req = [r \in Slots |-> Idle]
  /\ emitted = <<>>
  /\ outbox = <<>>
  /\ emails = <<>>
  /\ lostLog = 0
  /\ env = Healthy
  /\ NoOthers

TenantArrive(r) ==
  \/ \E actor \in Actors, t \in TargetIds : TaskGet(r, actor, t)
  \/ \E actor \in Actors, query \in ListQueries : TaskList(r, actor, query)
  \/ \E actor \in Actors, t \in TargetIds, body \in FaultBodies : PutRead(r, actor, t, body)
  \/ \E actor \in Actors, t \in TargetIds : AssignRead(r, actor, t, "mem")
  \/ \E actor \in Actors, t \in TargetIds : DeleteRead(r, actor, t)
  \/ \E actor \in Actors, t \in TargetIds : CommentRead(r, actor, t, <<"@", "a">>)
  \/ \E actor \in Actors, t \in TargetIds : CommentListRead(r, actor, t)
  \/ \E actor \in Actors, c \in TargetIds : CommentDeleteRead(r, actor, c)

TenantNext ==
  \/ TenantArrive(1)
  \/ PutMember(1) \/ PutMemberLog(1) \/ PutMemberNotify(1)
  \/ PutAdminStatus(1) \/ PutAdminNotifyAssignee(1) \/ PutAdminNotifyCreator(1)
  \/ PutAdminAssign(1) \/ PutAdminAssignNotify(1) \/ PutAdminSave(1)
  \/ AssignSave(1) \/ AssignLog(1) \/ AssignNotify(1)
  \/ DeleteSave(1) \/ DeleteLog(1)
  \/ CommentStep(1)
  \/ CommentListFind(1) \/ CommentDeleteSave(1) \/ CommentDeleteLog(1)
  \/ Finish(1)

TenantSpec == TenantInit /\ [][TenantNext]_vars

\* Concurrent signups on an empty database, with and without writes that
\* reject.
SignupInit ==
  /\ InitStore({})
  /\ env \in {Healthy, [Healthy EXCEPT !.dbFaults = TRUE]}
  /\ NoOthers

SignupNext ==
  \E r \in Slots :
    \/ \E email \in {"e1", "e2"}, companyName \in CompanyNames, role \in {UNDEF, "MANAGER"} :
         SignupFindUser(r, email, companyName, role)
    \/ SignupFindCompany(r) \/ SignupCreateCompany(r) \/ SignupCreateUser(r)
    \/ SignupFinish(r)

SignupSpec == SignupInit /\ [][SignupNext]_vars

\* Project and goal requests one at a time, on no project or on a project
\* as POST /projects leaves it with members of the creator's company.
ProjectSeeds ==
  {p \in [companyId : {"A"}, createdBy : {"adm", "mgr"},
          members : SUBSET {"adm", "mgr", "mem"}, isDeleted : {FALSE}] :
     p.createdBy \in p.members}
  \cup {[companyId |-> "B", createdBy |-> "out", members |-> {"out"}, isDeleted |-> FALSE]}

ProjectInit ==
  /\ InitStore({})
  /\ env = Healthy
  /\ sockets = [s \in SocketIds |-> NoSocket]
  /\ signups = [r \in Slots |-> NoSignup]
  /\ companies = <<>>
  /\ accounts = <<>>
  /\ projects \in {<<>>} \cup {<<p>> : p \in ProjectSeeds}
  /\ goals = <<>>
  /\ background = <<>>

ProjectNext ==
  \/ \E actor \in Actors, members \in SUBSET {"mem", "out", "gone"} :
       ProjectCreate(1, actor, members)
  \/ \E actor \in Actors, p \in 1..MaxProjects, userIds \in SUBSET {"mgr", "mem", "out", "gone"} :
       userIds # {} /\ AddMembers(1, actor, p, userIds)
  \/ \E actor \in Actors, p \in 1..MaxProjects, userId \in Users \cup {"gone"} :
       RemoveMember(1, actor, p, userId)
  \/ \E actor \in Actors, userId \in Users \cup {"gone"}, p \in 1..MaxProjects :
       GoalCreate(1, actor, userId, p)
  \/ BackgroundNotify
  \/ Finish(1)

ProjectSpec == ProjectInit /\ [][ProjectNext]_vars

\* Comments one at a time, whose notifications their recipients and the
\* other users mark as read, one by one or all at once.
InboxNext ==
  \/ CommentNext
  \/ \E actor \in Actors, n \in 1..(Len(notifications) + 1) : MarkRead(1, actor, n)
  \/ \E actor \in Actors : ReadAll(1, actor)

InboxSpec == CommentInit /\ [][InboxNext]_vars

\* ================================================================ claims
\* The transition table as the specification states it
ClaimedEdges ==
  {<<"TODO", "IN_PROGRESS">>,
   <<"IN_PROGRESS", "IN_REVIEW">>, <<"IN_PROGRESS", "TODO">>, <<"IN_PROGRESS", "BLOCKER">>,
   <<"IN_REVIEW", "DONE">>, <<"IN_REVIEW", "IN_PROGRESS">>, <<"IN_REVIEW", "BLOCKER">>,
   <<"DONE", "TODO">>,
   <<"BLOCKER", "TODO">>, <<"BLOCKER", "IN_PROGRESS">>}

Store == <<tasks, activityLog, notifications, comments>>

\* a PUT /tasks/:id that found its task and has been answered
AnsweredPut(rq) == rq.pc = "done" /\ rq.op = "put" /\ rq.read # NoDoc

\* the actor may update the task: ADMIN, MANAGER or the MEMBER it is assigned to
MayUpdate(rq) == UserRole(rq.actor) = "MEMBER" => rq.read.assignedTo = rq.actor

IsInvalidTransition(rq) == rq.resp = 400 /\ rq.msg = INVALID_TRANSITION

\* C1 as stated: every status request of an allowed actor whose (current,
\* requested) pair is no edge of the table, requested = current included, is
\* answered InvalidTransition (400) and leaves the stored task unchanged.
C1_AsStated ==
  \A r \in Slots : LET rq == req[r] IN
    (/\ AnsweredPut(rq) /\ MayUpdate(rq)
     /\ rq.body.status # UNDEF
     /\ <<rq.read.status, rq.body.status>> \notin ClaimedEdges)
    => IsInvalidTransition(rq) /\ tasks = rq.pre[1]

\* C1 amended: the same, except that for an ADMIN or MANAGER a requested
\* status equal to the current one is no status change and is not rejected.
C1_InvalidTransitionRejected ==
  \A r \in Slots : LET rq == req[r] IN
    (/\ AnsweredPut(rq) /\ MayUpdate(rq)
     /\ rq.body.status # UNDEF
     /\ <<rq.read.status, rq.body.status>> \notin ClaimedEdges
     /\ (UserRole(rq.actor) # "MEMBER" => rq.body.status # rq.read.status))
    => IsInvalidTransition(rq) /\ tasks = rq.pre[1]

\* C1 witness: a MANAGER's DONE -> IN_PROGRESS, sent with a new priority, was
\* answered InvalidTransition and the stored task is as before.
C1_Witness ==
  \E r \in Slots : LET rq == req[r] IN
    /\ AnsweredPut(rq) /\ rq.actor = "mgr"
    /\ rq.read.status = "DONE" /\ rq.body.status = "IN_PROGRESS"
    /\ rq.body.priority = "HIGH"
    /\ IsInvalidTransition(rq) /\ tasks = rq.pre[1]

\* C2: with requests processed one at a time, every stored task has
\* completedAt non-null exactly when its status is DONE.
C2_CompletedAtIffDone ==
  \A t \in DOMAIN tasks : (tasks[t].completedAt # NULL) <=> (tasks[t].status = "DONE")

\* C2 witness: the assigned MEMBER reopened a DONE task (DONE -> TODO) and
\* the stored completedAt has been cleared.
C2_Witness ==
  \E r \in Slots : LET rq == req[r] IN
    /\ AnsweredPut(rq) /\ rq.actor = "mem" /\ rq.resp = 200
    /\ rq.read.status = "DONE" /\ rq.read.completedAt = DATE
    /\ tasks[rq.tid].status = "TODO" /\ tasks[rq.tid].completedAt = NULL

\* C3 as stated: under every interleaving of concurrent status changes, once
\* the requests have completed every stored task has completedAt non-null
\* exactly when its status is DONE.
C3_CompletedAtIffDoneAfterRaces ==
  (\A r \in Slots : req[r].pc \in {"idle", "done"})
    => \A t \in DOMAIN tasks : (tasks[t].status = "DONE") <=> (tasks[t].completedAt # NULL)

\* C4 as stated: a status is only ever written by a request against the
\* status that request read (a conditional update): no write based on a
\* stale read replaces another request's result.
C4_NoStaleStatusWrite ==
  [][\A t \in DOMAIN tasks :
       tasks'[t].status # tasks[t].status
         => \E r \in Slots : /\ req[r].tid = t
                             /\ ~req[r].saved /\ req'[r].saved
                             /\ req[r].read.status = tasks[t].status]_vars

\* C5: a MEMBER's update of a task it read as BLOCKER writes nothing and
\* leaves the stored task as it was, whatever the body; an ADMIN's or
\* MANAGER's request to TODO or IN_PROGRESS on such a task succeeds; so every
\* request that saved a task out of BLOCKER is an ADMIN's or MANAGER's.
C5_OnlyManagersLeaveBlocker ==
  \A r \in Slots : LET rq == req[r] IN
    (rq.op = "put" /\ rq.read # NoDoc /\ rq.read.status = "BLOCKER") =>
      /\ UserRole(rq.actor) = "MEMBER" =>
           /\ ~rq.saved /\ tasks = rq.pre[1]
           /\ rq.pc = "done" => rq.resp \in {400, 403}
      /\ (/\ UserRole(rq.actor) \in {"ADMIN", "MANAGER"} /\ rq.pc = "done"
          /\ rq.body.status \in {"TODO", "IN_PROGRESS"} /\ rq.body.assignedTo = UNDEF)
           => rq.resp = 200 /\ tasks[rq.tid].status = rq.body.status
      /\ (rq.saved /\ tasks[rq.tid].status # "BLOCKER")
           => UserRole(rq.actor) \in {"ADMIN", "MANAGER"}

\* C5 witness: the assigned MEMBER asked BLOCKER -> TODO, was refused and
\* the task is still BLOCKER.
C5_Witness ==
  \E r \in Slots : LET rq == req[r] IN
    /\ AnsweredPut(rq) /\ rq.actor = "mem" /\ rq.read.assignedTo = "mem"
    /\ rq.read.status = "BLOCKER" /\ rq.body.status = "TODO"
    /\ rq.resp = 403 /\ tasks[rq.tid].status = "BLOCKER"

\* C6 as stated: the assigned MEMBER's status request on a BLOCKER task is
\* answered Forbidden (403) for every requested status.
C6_AsStated ==
  \A r \in Slots : LET rq == req[r] IN
    (/\ AnsweredPut(rq) /\ UserRole(rq.actor) = "MEMBER" /\ rq.read.assignedTo = rq.actor
     /\ rq.read.status = "BLOCKER" /\ rq.body.status # UNDEF)
    => rq.resp = 403

\* C6 amended: the request fails for every requested status and changes
\* nothing: Forbidden (403) for TODO and IN_PROGRESS, the edges out of
\* BLOCKER, and InvalidTransition (400) for IN_REVIEW, DONE and BLOCKER.
C6_BlockedMemberRefused ==
  \A r \in Slots : LET rq == req[r] IN
    (/\ AnsweredPut(rq) /\ UserRole(rq.actor) = "MEMBER" /\ rq.read.assignedTo = rq.actor
     /\ rq.read.status = "BLOCKER" /\ rq.body.status # UNDEF)
    => /\ Store = rq.pre
       /\ IF rq.body.status \in {"TODO", "IN_PROGRESS"}
            THEN rq.resp = 403 /\ rq.msg = BLOCKED_MEMBER
            ELSE IsInvalidTransition(rq)

\* C6 witness: the assigned MEMBER asked BLOCKER -> DONE and was answered
\* InvalidTransition.
C6_Witness ==
  \E r \in Slots : LET rq == req[r] IN
    /\ AnsweredPut(rq) /\ rq.actor = "mem" /\ rq.read.assignedTo = "mem"
    /\ rq.read.status = "BLOCKER" /\ rq.body.status = "DONE"
    /\ IsInvalidTransition(rq) /\ Store = rq.pre

\* C7: a MEMBER's update of a task assigned to someone else or to nobody is
\* answered Forbidden (403) whatever the body and writes nothing: tasks,
\* activity log and notifications are as the request found them.
C7_NotAssigneeForbidden ==
  \A r \in Slots : LET rq == req[r] IN
    (/\ rq.op = "put" /\ rq.read # NoDoc
     /\ UserRole(rq.actor) = "MEMBER" /\ rq.read.assignedTo # rq.actor)
    => /\ Store = rq.pre /\ ~rq.saved
       /\ rq.pc = "done" => rq.resp = 403 /\ rq.msg = NOT_ASSIGNEE

\* C7 witness: a MEMBER asked TODO -> IN_PROGRESS, a valid edge, on an
\* unassigned task and was answered Forbidden.
C7_Witness ==
  \E r \in Slots : LET rq == req[r] IN
    /\ AnsweredPut(rq) /\ rq.actor = "mem" /\ rq.read.assignedTo = NULL
    /\ rq.read.status = "TODO" /\ rq.body.status = "IN_PROGRESS"
    /\ rq.resp = 403 /\ Store = rq.pre

\* the body carries a status together with another task field
CarriesOtherField(rq) ==
  rq.body.status # UNDEF /\ (rq.body.priority # UNDEF \/ rq.body.assignedTo # UNDEF)

\* C8 as stated: the assigned MEMBER's request that carries a status together
\* with another task field is answered InvalidOperation and changes nothing.
C8_AsStated ==
  \A r \in Slots : LET rq == req[r] IN
    (/\ AnsweredPut(rq) /\ UserRole(rq.actor) = "MEMBER" /\ rq.read.assignedTo = rq.actor
     /\ CarriesOtherField(rq))
    => rq.resp = 400 /\ tasks = rq.pre[1]

\* C8 amended: such a request is handled as a change of the status alone:
\* the other fields of the body are ignored and stay as stored; an edge of
\* the table from a status other than BLOCKER is applied and answered 200,
\* any other status is refused and changes nothing.
C8_MemberStatusOnly ==
  \A r \in Slots : LET rq == req[r] IN
    (/\ AnsweredPut(rq) /\ UserRole(rq.actor) = "MEMBER" /\ rq.read.assignedTo = rq.actor
     /\ CarriesOtherField(rq))
    => /\ tasks[rq.tid].priority = rq.read.priority
       /\ tasks[rq.tid].assignedTo = rq.read.assignedTo
       /\ IF <<rq.read.status, rq.body.status>> \in ClaimedEdges /\ rq.read.status # "BLOCKER"
            THEN rq.resp = 200 /\ tasks[rq.tid].status = rq.body.status
            ELSE rq.resp \in {400, 403} /\ tasks = rq.pre[1]

\* C8 witness: the assigned MEMBER sent TODO -> IN_PROGRESS with priority
\* HIGH: answered 200, the status is applied and the priority is as before.
C8_Witness ==
  \E r \in Slots : LET rq == req[r] IN
    /\ AnsweredPut(rq) /\ rq.actor = "mem" /\ rq.read.assignedTo = "mem"
    /\ rq.read.status = "TODO" /\ rq.body.status = "IN_PROGRESS"
    /\ rq.body.priority = "HIGH" /\ rq.read.priority = "MEDIUM"
    /\ rq.resp = 200
    /\ tasks[rq.tid].status = "IN_PROGRESS" /\ tasks[rq.tid].priority = "MEDIUM"

\* C9 as stated: a status-change or assignment request has saved the task
\* before it writes an activity-log entry or a notification.
C9_SaveBeforeLogAndNotify ==
  \A r \in Slots : LET rq == req[r] IN
    (rq.op \in {"put", "assign"} /\ (rq.nlog > 0 \/ rq.nnotif > 0)) => rq.saved

\* C10 as stated: a request answered NotFound, Forbidden, InvalidTransition
\* or InvalidOperation leaves tasks, activity log and notifications as it
\* found them.
C10_RejectedChangesNothing ==
  \A r \in Slots : LET rq == req[r] IN
    (rq.pc = "done" /\ rq.resp \in {400, 403, 404}) => Store = rq.pre

\* the activity-log entries written since the request arrived
NewLog(rq) == SubSeq(activityLog, Len(rq.pre[2]) + 1, Len(activityLog))

StatusEntries(rq) == SelectSeq(NewLog(rq), LAMBDA e : e.action = "TASK_STATUS_CHANGED")

\* C11 as stated: an answered request that changed the status of its task
\* (MEMBER or ADMIN/MANAGER path) has recorded exactly one TASK_STATUS_CHANGED
\* entry, by the actor, targeting the task, with metadata (status before,
\* status after); an answered request that did not change the status has
\* recorded no such entry.
C11_StatusChangeLoggedOnce ==
  \A r \in Slots : LET rq == req[r] IN
    rq.pc = "done" =>
      IF rq.op = "put" /\ rq.resp = 200 /\ tasks[rq.tid].status # rq.read.status
        THEN StatusEntries(rq) =
               <<[action |-> "TASK_STATUS_CHANGED", companyId |-> UserCompany(rq.actor),
                  performedBy |-> rq.actor, targetType |-> "Task", targetId |-> rq.tid,
                  metadata |-> <<rq.read.status, tasks[rq.tid].status>>]>>
        ELSE StatusEntries(rq) = <<>>

\* the notifications persisted since the request arrived
NewNotifs(rq) == SubSeq(notifications, Len(rq.pre[3]) + 1, Len(notifications))

StatusNotifs(rq) == SelectSeq(NewNotifs(rq), LAMBDA n : n.type = "TASK_STATUS_CHANGED")

\* who is to be told of a change made by actor to a task with this assignee
\* and creator
StatusRecipients(actor, assignee, creator) ==
  (IF assignee # NULL /\ assignee # actor THEN {assignee} ELSE {})
    \cup (IF creator # assignee /\ creator # actor THEN {creator} ELSE {})

\* C12: an answered request that changed the status of its task has created
\* TASK_STATUS_CHANGED notifications for exactly the task's assignee, if there
\* is one and it is not the actor, and the task's creator, if it is neither
\* the assignee nor the actor: one each, triggered by the actor, about the
\* task, and none for the actor.
C12_StatusChangeRecipients ==
  \A r \in Slots : LET rq == req[r]
                       ns == StatusNotifs(rq) IN
    (rq.pc = "done" /\ rq.op = "put" /\ rq.resp = 200
       /\ tasks[rq.tid].status # rq.read.status)
    => /\ {ns[i].recipient : i \in 1..Len(ns)}
            = StatusRecipients(rq.actor, rq.read.assignedTo, rq.read.createdBy)
       /\ \A i, j \in 1..Len(ns) : ns[i].recipient = ns[j].recipient => i = j
       /\ \A i \in 1..Len(ns) : /\ ns[i].triggeredBy = rq.actor
                                /\ ns[i].recipient # rq.actor
                                /\ ns[i].relatedId = rq.tid

\* C12 witness: the ADMIN moved a task assigned to the MEMBER and created by
\* the MANAGER; there are two notifications, the MEMBER's and the MANAGER's.
C12_Witness ==
  \E r \in Slots : LET rq == req[r]
                       ns == StatusNotifs(rq) IN
    /\ rq.pc = "done" /\ rq.op = "put" /\ rq.resp = 200 /\ rq.actor = "adm"
    /\ rq.read.assignedTo = "mem" /\ rq.read.createdBy = "mgr"
    /\ tasks[rq.tid].status # rq.read.status
    /\ Len(ns) = 2 /\ ns[1].recipient = "mem" /\ ns[2].recipient = "mgr"

\* a PUT /tasks/:id whose requested status is an edge of the table that the
\* actor may take, with nothing else in the body to reject
ValidStatusChange(rq) ==
  /\ rq.op = "put" /\ rq.read # NoDoc /\ MayUpdate(rq)
  /\ <<rq.read.status, rq.body.status>> \in ClaimedEdges
  /\ UserRole(rq.actor) = "MEMBER" => rq.read.status # "BLOCKER"
  /\ rq.body.assignedTo \in {UNDEF, NULL}
       \/ (rq.body.assignedTo \in Users /\ UserCompany(rq.body.assignedTo) = UserCompany(rq.actor))

\* C13 as stated: a valid status change is answered as a success with the new
\* status persisted, on the MEMBER and on the ADMIN/MANAGER path, also when
\* persisting one of its notifications fails.
C13_NotificationFailureRecovered ==
  \A r \in Slots : LET rq == req[r] IN
    (rq.pc = "done" /\ ValidStatusChange(rq))
      => rq.resp = 200 /\ tasks[rq.tid].status = rq.body.status

\* C14: a step in which the ActivityLog write fails (task creation, status
\* change, assignment, task deletion, comment creation) writes nothing, not
\* even the entry, and does not fail its request: tasks, comments and
\* notifications stay as they are, the request is not answered with an error
\* by that step and keeps everything it has read and done so far; it goes on
\* to its next await or to its success response.
C14_LogFailureContained ==
  [][lostLog' > lostLog =>
       /\ tasks' = tasks /\ comments' = comments
       /\ notifications' = notifications /\ activityLog' = activityLog
       /\ \A r \in Slots : req'[r] # req[r] =>
            /\ req'[r].resp \in {0, 200, 201}
            /\ req'[r].pc # "idle"
            /\ req'[r].resp # 0 => req'[r].pc = "done"
            /\ req'[r].nlog = req[r].nlog /\ req'[r].nnotif = req[r].nnotif
            /\ req'[r].saved = req[r].saved /\ req'[r].read = req[r].read
            /\ req'[r].actor = req[r].actor /\ req'[r].tid = req[r].tid]_vars

\* C14 witness: a comment was created and answered 201 although its
\* COMMENT_ADDED entry was lost: the comment is stored, the assignee was
\* notified, the activity log is empty.
C14_Witness ==
  \E r \in Slots : LET rq == req[r] IN
    /\ rq.pc = "done" /\ rq.op = "comment" /\ rq.resp = 201
    /\ lostLog = 1 /\ activityLog = <<>>
    /\ Len(comments) = 1 /\ comments[1].author = rq.actor
    /\ Len(notifications) > 0

\* every record of a sequence of notifications is addressed to someone other
\* than the user who triggered it
NoneToSelf(ns) == \A i \in 1..Len(ns) : ns[i].recipient # ns[i].triggeredBy

\* C15: no stored Notification has its recipient equal to triggeredBy, and
\* none was emitted on the real-time channel or handed to the mail
\* transport: a notification of the actor's own action leaves no trace.
C15_NobodyNotifiedOfOwnAction ==
  /\ NoneToSelf(notifications)
  /\ NoneToSelf(emitted)
  /\ NoneToSelf(outbox)
  /\ NoneToSelf(emails)

\* C15 witness: with socket server, sessions and SMTP all up, the MEMBER
\* commented on a task assigned to itself and mentioned the ADMIN: the
\* request called notify.commentAdded for the assignee (the author) and for
\* the creator; only the creator's and the ADMIN's notifications exist, were
\* emitted and were mailed.
C15_Witness ==
  \E r \in Slots : LET rq == req[r] IN
    /\ rq.pc = "done" /\ rq.op = "comment" /\ rq.resp = 201
    /\ rq.actor = "mem" /\ rq.read.assignedTo = "mem" /\ rq.read.createdBy = "mgr"
    /\ env.io /\ env.online = Users /\ env.transporter
    /\ Len(notifications) = 2
    /\ notifications[1].recipient = "mgr" /\ notifications[2].recipient = "adm"
    /\ emitted = notifications /\ outbox = <<>> /\ emails = notifications

\* the record is among the stored notifications
Persisted(x) == \E i \in 1..Len(notifications) : notifications[i] = x

AllPersisted(xs) == \A i \in 1..Len(xs) : Persisted(xs[i])

\* C16: a notification is stored, unread, before it is emitted or mailed:
\* whatever was emitted, is being mailed or was mailed is a stored record;
\* stored notifications are never taken back; the end of a mail attempt,
\* sent or failed, touches no request; and the step that stores a
\* notification never answers its request with an error, whether or not a
\* socket server is set, the recipient is connected and a mail transport is
\* configured.
C16_PersistedBeforeDelivery ==
  /\ [](/\ AllPersisted(emitted) /\ AllPersisted(outbox) /\ AllPersisted(emails)
        /\ \A i \in 1..Len(notifications) : notifications[i].read = FALSE)
  /\ [][/\ Len(notifications') >= Len(notifications)
        /\ SubSeq(notifications', 1, Len(notifications)) = notifications
        /\ Len(outbox') < Len(outbox) => req' = req
        /\ Len(notifications') > Len(notifications) =>
             \A r \in Slots : req'[r].resp \in {0, 200, 201}]_vars

\* C16 witness: socket server set but nobody connected, SMTP configured but
\* the mail failed: the request that notified was answered as a success, its
\* notification is stored unread, nothing was emitted and nothing mailed.
C16_Witness ==
  \E r \in Slots : LET rq == req[r] IN
    /\ rq.pc = "done" /\ rq.resp \in {200, 201} /\ rq.nnotif > 0
    /\ env.io /\ env.online = {} /\ env.transporter
    /\ Len(notifications) > 0 /\ notifications[1].read = FALSE
    /\ emitted = <<>> /\ outbox = <<>> /\ emails = <<>>

\* C17: an answered comment creation has notified each member at most once
\* and its author not at all: the task's assignee, if there is one and it is
\* not the author, and the creator, if it is neither the assignee nor the
\* author, each got one COMMENT_ADDED; a mentioned member got one
\* COMMENT_MENTIONED exactly when it is none of author, assignee and creator;
\* nobody else was notified.
C17_CommentFanout ==
  \A r \in Slots : LET rq == req[r] IN
    (rq.pc = "done" /\ rq.op = "comment" /\ rq.resp = 201) =>
      LET ns == NewNotifs(rq)
          author == rq.actor
          assignee == rq.read.assignedTo
          creator == rq.read.createdBy
          mentioned == {comments[rq.cid].mentions[k] :
                          k \in 1..Len(comments[rq.cid].mentions)}
          added == ({assignee} \ {NULL, author}) \cup ({creator} \ {assignee, author})
          told == mentioned \ {author, assignee, creator} IN
      /\ \A i, j \in 1..Len(ns) : ns[i].recipient = ns[j].recipient => i = j
      /\ \A i \in 1..Len(ns) : ns[i].recipient # author /\ ns[i].triggeredBy = author
      /\ {<<ns[i].recipient, ns[i].type>> : i \in 1..Len(ns)}
           = {<<u, "COMMENT_ADDED">> : u \in added}
               \cup {<<u, "COMMENT_MENTIONED">> : u \in told}

\* C17 witness: the MANAGER, creator of a task assigned to the MEMBER,
\* mentioned the ADMIN, the MEMBER and itself: the MEMBER got COMMENT_ADDED
\* only, the ADMIN COMMENT_MENTIONED, the MANAGER nothing.
C17_Witness ==
  \E r \in Slots : LET rq == req[r]
                       ns == NewNotifs(rq) IN
    /\ rq.pc = "done" /\ rq.op = "comment" /\ rq.resp = 201
    /\ rq.actor = "mgr" /\ rq.read.createdBy = "mgr" /\ rq.read.assignedTo = "mem"
    /\ comments[rq.cid].mentions = <<"adm", "mgr", "mem">>
    /\ Len(ns) = 2
    /\ ns[1].recipient = "mem" /\ ns[1].type = "COMMENT_ADDED"
    /\ ns[2].recipient = "adm" /\ ns[2].type = "COMMENT_MENTIONED"

\* two names are equal up to the case of their letters
EqualsIgnoreCase(a, b) ==
  Len(a) = Len(b) /\ \A i \in 1..Len(a) : toLowerCase(a[i]) = toLowerCase(b[i])

\* C18: the ids resolved for a text hold no id twice and are exactly the
\* non-deleted members of the commenter's company whose full name equals,
\* up to case, one of the mention tokens of the text: a token repeated yields
\* its members once, a token matching several members yields all of them,
\* and no member of another company is ever among them.
C18_MentionsResolved ==
  \A r \in Slots : LET rq == req[r] IN
    (rq.op = "comment" /\ rq.pc = "cm_create") =>
      LET ids == rq.mentions
          tokens == MentionNames(rq.text) IN
      /\ \A i, j \in 1..Len(ids) : ids[i] = ids[j] => i = j
      /\ {ids[i] : i \in 1..Len(ids)}
           = {u \in Users : /\ UserCompany(u) = UserCompany(rq.actor)
                             /\ \E k \in 1..Len(tokens) :
                                  EqualsIgnoreCase(UserName(u), tokens[k])}

\* C18 witness: the text "@a@A" of a member of company A resolved to the two
\* members of company A named A and a, once each, and to neither the deleted
\* member nor the user of company B of that name.
C18_Witness ==
  \E r \in Slots : LET rq == req[r] IN
    /\ rq.op = "comment" /\ rq.pc = "cm_create" /\ rq.actor = "mem"
    /\ rq.text = <<"@", "a", "@", "A">>
    /\ rq.mentions = <<"adm", "mem">>

\* C19 as stated: a PATCH /tasks/:id/assign whose new assignee equals the
\* current one (null on an unassigned task included) is answered as a success
\* and records no TASK_ASSIGNED entry and no notification.
C19_SameAssigneeIsNoOp ==
  \A r \in Slots : LET rq == req[r] IN
    (/\ rq.pc = "done" /\ rq.op = "assign" /\ rq.read # NoDoc
     /\ rq.body.assignedTo = rq.read.assignedTo)
    => rq.resp = 200 /\ NewLog(rq) = <<>> /\ NewNotifs(rq) = <<>>

\* the assignee given in the body is no non-deleted user of the actor's company
Unresolvable(rq) ==
  /\ rq.body.assignedTo \notin {UNDEF, NULL}
  /\ ~(rq.body.assignedTo \in Users
         /\ UserCompany(rq.body.assignedTo) = UserCompany(rq.actor))

\* the request gets as far as the lookup of the assignee: the actor holds
\* the permission, the task (or, for a creation, the project) was found and,
\* in a full update, the status of the body is not rejected
ReachesAssigneeLookup(rq) ==
  CASE rq.op = "create" ->
         UserRole(rq.actor) \in {"ADMIN", "MANAGER"} /\ rq.msg # PROJECT_NOT_FOUND
    [] rq.op = "assign" -> rq.read # NoDoc
    [] rq.op = "put" ->
         /\ rq.read # NoDoc /\ UserRole(rq.actor) \in {"ADMIN", "MANAGER"}
         /\ rq.body.assignedTo # rq.read.assignedTo
         /\ \/ rq.body.status \in {UNDEF, rq.read.status}
            \/ <<rq.read.status, rq.body.status>> \in ClaimedEdges
    [] OTHER -> FALSE

C21_SessionRoomIsolation ==
  \A s \in SocketIds :
    LET k == sockets[s] IN
    /\ Cardinality(k.rooms) <= 1
    /\ k.rooms # {} => /\ k.token.kind = "valid"
                       /\ k.rooms = {k.token.id}
    /\ (k.status = "connected") <=> (k.rooms # {})
    /\ k.status # "closed" => k.token.kind = "valid" /\ k.userId = k.token.id
    /\ k.token.kind # "valid" => k.status = "closed" /\ k.received = <<>>
    /\ \A i \in 1..Len(k.received) :
         k.token.kind = "valid" /\ k.received[i].recipient = k.token.id

\* A member receives a notification on an open connection while a connection
\* with an expired token was refused.
C21_Witness ==
  \E s, x \in SocketIds :
    /\ sockets[s].status = "connected"
    /\ sockets[s].userId = "mem"
    /\ Len(sockets[s].received) = 1
    /\ sockets[x].token.kind = "expired"
    /\ sockets[x].error = "Invalid token"
    /\ sockets[x].rooms = {}

\* The request is addressed to a task or comment stored for another company
CrossTenant(rq) ==
  IF rq.op = "cdelete"
    THEN /\ rq.cid \in DOMAIN rq.pre[4]
         /\ rq.pre[4][rq.cid].companyId # UserCompany(rq.actor)
    ELSE /\ rq.op \in {"get", "put", "assign", "delete", "comment", "clist"}
         /\ rq.tid \in DOMAIN rq.pre[1]
         /\ rq.pre[1][rq.tid].companyId # UserCompany(rq.actor)

\* The request is addressed to an id that nothing stored has
Missing(rq) ==
  IF rq.op = "cdelete"
    THEN rq.cid \notin DOMAIN rq.pre[4]
    ELSE /\ rq.op \in {"get", "put", "assign", "delete", "comment", "clist"}
         /\ rq.tid \notin DOMAIN rq.pre[1]

OpPermission(op) ==
  CASE op = "get" -> "tasks:read"
    [] op = "put" -> "tasks:update"
    [] op = "assign" -> "tasks:assign"
    [] op = "delete" -> "tasks:delete"
    [] op = "comment" -> "comments:create"
    [] op = "clist" -> "comments:list"
    [] op = "cdelete" -> "comments:delete"

\* The answer to a request for a missing document: 403 for a role without
\* the permission of the route, else 404 with the route's message
Refusal(rq) ==
  IF UserRole(rq.actor) \notin PERMISSIONS(OpPermission(rq.op))
    THEN <<403, ACCESS_DENIED>>
    ELSE <<404, CASE rq.op \in {"get", "put", "assign", "delete"} -> TASK_NOT_FOUND
                  [] rq.op \in {"comment", "clist"} -> TASK_NOT_IN_COMPANY
                  [] rq.op = "cdelete" -> "Comment not found">>

\* C22 as stated: every request addressed to a task or comment of another
\* company is answered 404 and changes nothing.
C22_AsStated ==
  \A r \in Slots :
    LET rq == req[r] IN
    CrossTenant(rq) => rq.pc = "done" /\ rq.resp = 404 /\ Store = rq.pre

\* C22: a task get, update, assign or delete and a comment create, list or
\* delete addressed to a task or comment of another company is answered as
\* the same request for an id that does not exist (403 when the role lacks
\* the permission of the route, else 404), returns nothing and leaves
\* tasks, comments, activity log and notifications as they were; whatever a
\* request returns belongs to the company of its actor.
C22_TenantIsolation ==
  \A r \in Slots :
    LET rq == req[r] IN
    /\ (CrossTenant(rq) \/ Missing(rq))
         => /\ rq.pc = "done"
            /\ <<rq.resp, rq.msg>> = Refusal(rq)
            /\ rq.result = <<>>
            /\ Store = rq.pre
    /\ \A i \in 1..Len(rq.result) :
         IF rq.op = "clist"
           THEN comments[rq.result[i]].companyId = UserCompany(rq.actor)
           ELSE tasks[rq.result[i]].companyId = UserCompany(rq.actor)

\* The ADMIN of company A was answered 404 for the comment of company B,
\* which is still stored.
C22_Witness ==
  /\ req[1].pc = "done"
  /\ req[1].op = "cdelete"
  /\ req[1].actor = "adm"
  /\ req[1].cid = 1
  /\ Len(comments) = 1
  /\ comments[1].companyId = "B"
  /\ ~comments[1].isDeleted
  /\ req[1].resp = 404

\* C23: a MEMBER who lists tasks receives only tasks assigned to that
\* MEMBER, whatever filters the query carries.
C23_MemberListsOwnTasks ==
  \A r \in Slots :
    LET rq == req[r] IN
    (rq.pc = "done" /\ rq.op = "list" /\ UserRole(rq.actor) = "MEMBER")
      => \A i \in 1..Len(rq.result) : rq.pre[1][rq.result[i]].assignedTo = rq.actor

\* The users of a company in the order of their creation
MembersOf(slug) == SelectSeq(accounts, LAMBDA a : a.companyId = slug)

\* C24: the first user created in a company is its ADMIN and every later
\* user of the company is a MANAGER or a MEMBER, under concurrent signups
\* whose storage steps may fail.
C24_FirstMemberIsAdmin ==
  \A i \in 1..Len(accounts) :
    LET m == MembersOf(accounts[i].companyId) IN
    /\ m[1].role = "ADMIN"
    /\ \A k \in 2..Len(m) : m[k].role \in {"MANAGER", "MEMBER"}

\* C25: the creator of a project is one of its members, after the creation
\* and after every addition and removal of members.
C25_CreatorIsMember ==
  \A p \in 1..Len(projects) : projects[p].createdBy \in projects[p].members

\* C29: every member stored on a project is a user of the project's company,
\* and a project request returns no user of another company among the
\* populated members.
C29_MembersInTenant ==
  /\ \A p \in 1..Len(projects) :
       \A m \in projects[p].members :
         m \in Users \cup {"gone"} /\ UserCompany(m) = projects[p].companyId
  /\ \A r \in Slots :
       (req[r].op \in {"p_create", "p_add", "p_remove"} /\ req[r].resp \in {200, 201})
         => \A u \in req[r].result : UserCompany(u) = UserCompany(req[r].actor)

\* C30: when an ADMIN or MANAGER has created a goal for another user and the
\* notification call of that request has ended, a GOAL_ASSIGNED notification
\* with relatedType 'Goal' is stored for that user.
C30_GoalNotificationPersisted ==
  \A r \in Slots :
    LET rq == req[r] IN
    (rq.op = "goal" /\ rq.pc = "done" /\ rq.resp = 201 /\ rq.body.userId # rq.actor
       /\ background = <<>>)
      => \E i \in 1..Len(notifications) :
           /\ notifications[i].recipient = rq.body.userId
           /\ notifications[i].type = "GOAL_ASSIGNED"
           /\ notifications[i].relatedType = "Goal"
           /\ notifications[i].relatedId = rq.cid

\* notification i is as it was, or it was unread and a mark-read or
\* read-all request of its recipient has set read and readAt
ChangedByRecipientOnly(i) ==
  \/ notifications'[i] = notifications[i]
  \/ /\ ~notifications[i].read
     /\ notifications'[i] = [notifications[i] EXCEPT !.read = TRUE, !.readAt = DATE]
     /\ req'[1].op \in {"markread", "readall"}
     /\ req'[1].actor = notifications[i].recipient

\* C26: a stored notification is never deleted and changes only when its
\* recipient marks it as read: read goes from false to true, readAt is set
\* exactly when read is, recipient, type, company and reference stay; a
\* mark-read request of anybody else is answered 404 and changes nothing.
C26_NotificationIntegrity ==
  /\ [](\A i \in 1..Len(notifications) :
          (notifications[i].readAt # NULL) <=> notifications[i].read)
  /\ [](\A r \in Slots :
          LET rq == req[r] IN
          (rq.op = "markread" /\ rq.cid \in DOMAIN rq.pre[3]
             /\ rq.pre[3][rq.cid].recipient # rq.actor)
            => rq.resp = 404 /\ Store = rq.pre)
  /\ [][/\ Len(notifications') >= Len(notifications)
        /\ \A i \in 1..Len(notifications) : ChangedByRecipientOnly(i)]_vars

\* The member has marked a notification as read, and the ADMIN was answered
\* 404 for a notification of the member.
C26_Witness ==
  /\ \E i \in 1..Len(notifications) :
       notifications[i].recipient = "mem" /\ notifications[i].read
  /\ req[1].op = "markread"
  /\ req[1].actor = "adm"
  /\ req[1].cid \in DOMAIN notifications
  /\ notifications[req[1].cid].recipient = "mem"
  /\ req[1].resp = 404

\* C27: a MEMBER's status change is written only while that MEMBER is the
\* stored assignee of the task, whatever reassignment runs beside it.
C27_MemberWritesOnlyAsAssignee ==
  [][\A r \in Slots :
       (req[r].op = "put" /\ UserRole(req[r].actor) = "MEMBER"
          /\ ~req[r].saved /\ req'[r].saved)
         => tasks[req[r].tid].assignedTo = req[r].actor]_vars

\* The TASK_STATUS_CHANGED entries of task t in the order of their writes
StatusLog(t) ==
  SelectSeq(activityLog,
            LAMBDA e : e.action = "TASK_STATUS_CHANGED" /\ e.targetId = t)

\* C28: under concurrent status changes every change of the stored status
\* is an edge of the transition table, and the TASK_STATUS_CHANGED entries
\* of a task form a chain: each entry starts from the status the entry
\* before it ended in.
C28_StatusChain ==
  /\ [][\A t \in DOMAIN tasks :
          tasks'[t].status # tasks[t].status
            => <<tasks[t].status, tasks'[t].status>> \in ClaimedEdges]_vars
  /\ [](\A t \in DOMAIN tasks :
          \A i \in 2..Len(StatusLog(t)) :
            StatusLog(t)[i].metadata[1] = StatusLog(t)[i - 1].metadata[2])

====
